---- MODULE Spec2Model ----
(***************************************************************************)
(* Reservation composition layer of the Expedia console demo:              *)
(* vendor adapters, the Itinerary composite, the MakeReservation workflow  *)
(* and the Manager menu loop that drives them.                             *)
(*                                                                         *)
(* Objects that the C++ code reaches through std::unique_ptr<Reservation>  *)
(* live in `heap`, a table of object slots; a unique_ptr is the slot       *)
(* number (0 = nullptr).  The small records an adapter owns through        *)
(* unique_ptr (its criteria and chosen-offer records) are kept inside the  *)
(* adapter's slot as a sequence of length <= 1 (<<>> = nullptr).           *)
(* Free-text inputs that no operation inspects (city names, dates typed    *)
(* by the user, card data) are left out of the records.                    *)
(***************************************************************************)
EXTENDS Integers, Sequences, FiniteSets, TLC

\* ------------------------------------------------------------------ bounds
MaxObj == 12        \* slots of the object heap
MaxOps == 6         \* operations the client code performs in one run
MaxLen == 2         \* reservations held by one itinerary
MaxPax == 3         \* largest head / night / room count drawn as an input

\* ------------------------------------------------------- vendor stub APIs
AirCanadaOnlineAPI_getFlights ==
    << [price |-> 200, date_time_from |-> "25-01-2022", date_time_to |-> "10-02-2022"],
       [price |-> 250, date_time_from |-> "29-01-2022", date_time_to |-> "10-02-2022"] >>

TurkishAirlineOnlineAPI_getAvailableFlights ==
    << [cost |-> 200, datetime_from |-> "25-01-2022", datetime_to |-> "10-02-2022"],
       [cost |-> 250, datetime_from |-> "29-01-2022", datetime_to |-> "10-02-2022"] >>

HiltonHotelAPI_searchRooms ==
    << [room_type |-> "Interior View", available_number |-> 6, price_per_night |-> 200,
        from_date |-> "29-01-2022", to_date |-> "10-02-2022"],
       [room_type |-> "City View", available_number |-> 3, price_per_night |-> 300,
        from_date |-> "29-01-2022", to_date |-> "10-02-2022"],
       [room_type |-> "Deluxe View", available_number |-> 8, price_per_night |-> 500,
        from_date |-> "29-01-2022", to_date |-> "10-02-2022"] >>

MarriottHotelAPI_findRooms ==
    << [room_type |-> "City View", available_number |-> 8, price_per_night |-> 320,
        date_from |-> "29-01-2022", date_to |-> "10-02-2022"],
       [room_type |-> "Interior View", available_number |-> 8, price_per_night |-> 220,
        date_from |-> "29-01-2022", date_to |-> "10-02-2022"],
       [room_type |-> "Private View", available_number |-> 5, price_per_night |-> 600,
        date_from |-> "29-01-2022", date_to |-> "10-02-2022"] >>

\* ------------------------------------------------------ normalized records
\* PassengerInfo() / CustomerInfo() / FoundFlightInfo() / FoundRoomInfo():
\* every int and double member is value-initialised ({ }).
PassengerInfo_default == [adults |-> 0, children |-> 0, infants |-> 0]

CustomerInfo_default ==
    [adults |-> 0, children |-> 0, needed_rooms |-> 0, number_of_nights |-> 0]

FoundFlightInfo_default == [airline |-> "", price |-> 0, from_date |-> "", to_date |-> ""]

FoundRoomInfo_default ==
    [hotel |-> "", from_date |-> "", to_date |-> "", view_type |-> "",
     how_many |-> 0, price_for_night |-> 0]

\* vendor-shaped records, default constructed
AirCanadaCustomerInfo_default == [adults |-> 0, children |-> 0, infants |-> 0]
AirCanadaFlight_default == [price |-> 0, date_time_from |-> "", date_time_to |-> ""]
TurkishCustomerInfo_default == [adults |-> 0, children |-> 0, infants |-> 0]
TurkishFlight_default == [cost |-> 0, datetime_from |-> "", datetime_to |-> ""]
HiltonCustomerInfo_default ==
    [needed_rooms |-> 0, adults |-> 0, children |-> 0, number_of_nights |-> 0]
HiltonRoom_default ==
    [room_type |-> "", available_number |-> 0, price_per_night |-> 0,
     from_date |-> "", to_date |-> ""]
MarriottCustomerInfo_default ==
    [needed_rooms |-> 0, adults |-> 0, children |-> 0, number_of_nights |-> 0]
MarriottFoundRoom_default ==
    [room_type |-> "", available_number |-> 0, price_per_night |-> 0,
     date_from |-> "", date_to |-> ""]

\* ------------------------------------------------------------ object heap
ObjIds == 1..MaxObj
nullptr == 0

\* a slot: kind is "free", "Canada", "Turkish", "Hilton", "Marriott" or
\* "Itinerary"; customer_info / chosen are the adapter's two unique_ptr
\* members; Reservations is the itinerary's vector of unique_ptr.
FreeSlot == [kind |-> "free", customer_info |-> <<>>, chosen |-> <<>>, Reservations |-> <<>>]

EmptyHeap == [i \in ObjIds |-> FreeSlot]

FreeIds(h) == {i \in ObjIds : h[i].kind = "free"}

\* operator new: the lowest free slot
Alloc(h) == CHOOSE i \in FreeIds(h) : \A j \in FreeIds(h) : i <= j

IsLive(h, id) == id \in ObjIds /\ h[id].kind # "free"

FlightBrands == {"Canada", "Turkish"}
HotelBrands == {"Hilton", "Marriott"}
Brands == FlightBrands \cup HotelBrands

\* ------------------------------------------------------- flight adapters
\* CanadaFlightReservation::CanadaFlightReservation()
Canada_ctor ==
    [kind |-> "Canada", customer_info |-> <<AirCanadaCustomerInfo_default>>,
     chosen |-> <<AirCanadaFlight_default>>, Reservations |-> <<>>]

\* CanadaFlightReservation::setCustomerInfo(PassengerInfo_ptr &&info):
\* reads info's fields; the rvalue reference is never moved from.
Canada_setCustomerInfo(self, info) ==
    [self EXCEPT !.customer_info[1].adults = info[1].adults,
                 !.customer_info[1].children = info[1].children,
                 !.customer_info[1].infants = info[1].infants]

\* CanadaFlightReservation::setChosenFlight(FlightInfo_ptr &&info)
Canada_setChosenFlight(self, info) ==
    [self EXCEPT !.chosen[1].date_time_from = info[1].from_date,
                 !.chosen[1].date_time_to = info[1].to_date,
                 !.chosen[1].price = info[1].price]

\* CanadaFlightReservation(PassengerInfo_ptr&&, FlightInfo_ptr&&)
Canada_ctorFrom(customer_info, chosen_flight) ==
    Canada_setChosenFlight(Canada_setCustomerInfo(Canada_ctor, customer_info), chosen_flight)

\* faulty variant: the chosen flight is not copied
Canada_copyCtor_noFlight(other) ==
    [Canada_ctor EXCEPT !.customer_info[1] = other.customer_info[1]]

\* CanadaFlightReservation(const CanadaFlightReservation &other)
Canada_copyCtor(other) ==
    [Canada_ctor EXCEPT !.customer_info[1] = other.customer_info[1],
                        !.chosen[1] = other.chosen[1]]

\* CanadaFlightReservation::getCost
Canada_getCost(self) ==
    self.chosen[1].price
        * (self.customer_info[1].adults + self.customer_info[1].children
           + self.customer_info[1].infants)

\* faulty variant: the vector is replaced by AirCanada's flights
Canada_getAvailableFlights_replacing(flights) ==
    [i \in 1..Len(AirCanadaOnlineAPI_getFlights) |->
        [airline |-> "Canada", price |-> AirCanadaOnlineAPI_getFlights[i].price,
         from_date |-> AirCanadaOnlineAPI_getFlights[i].date_time_from,
         to_date |-> AirCanadaOnlineAPI_getFlights[i].date_time_to]]

\* CanadaFlightReservation::getAvailableFlights(std::vector<FoundFlightInfo> &&flights)
Canada_getAvailableFlights(flights) ==
    flights \o
    [i \in 1..Len(AirCanadaOnlineAPI_getFlights) |->
        [airline |-> "Canada", price |-> AirCanadaOnlineAPI_getFlights[i].price,
         from_date |-> AirCanadaOnlineAPI_getFlights[i].date_time_from,
         to_date |-> AirCanadaOnlineAPI_getFlights[i].date_time_to]]

\* TurkishFlightReservation::TurkishFlightReservation()
Turkish_ctor ==
    [kind |-> "Turkish", customer_info |-> <<TurkishCustomerInfo_default>>,
     chosen |-> <<TurkishFlight_default>>, Reservations |-> <<>>]

\* TurkishFlightReservation::setCustomerInfo
Turkish_setCustomerInfo(self, info) ==
    [self EXCEPT !.customer_info[1].adults = info[1].adults,
                 !.customer_info[1].children = info[1].children,
                 !.customer_info[1].infants = info[1].infants]

\* TurkishFlightReservation::setChosenFlight
Turkish_setChosenFlight(self, info) ==
    [self EXCEPT !.chosen[1].datetime_from = info[1].from_date,
                 !.chosen[1].datetime_to = info[1].to_date,
                 !.chosen[1].cost = info[1].price]

\* TurkishFlightReservation(PassengerInfo_ptr&&, FlightInfo_ptr&&)
Turkish_ctorFrom(customer_info, chosen_flight) ==
    Turkish_setChosenFlight(Turkish_setCustomerInfo(Turkish_ctor, customer_info), chosen_flight)

\* TurkishFlightReservation(const TurkishFlightReservation &other):
\* each record is copied only if other holds one.
Turkish_copyCtor(other) ==
    [Turkish_ctor EXCEPT
        !.customer_info = IF other.customer_info # <<>> THEN <<other.customer_info[1]>> ELSE @,
        !.chosen = IF other.chosen # <<>> THEN <<other.chosen[1]>> ELSE @]

\* faulty variant: infants fly free
Turkish_getCost_noInfants(self) ==
    self.chosen[1].cost * (self.customer_info[1].adults + self.customer_info[1].children)

\* TurkishFlightReservation::getCost
Turkish_getCost(self) ==
    self.chosen[1].cost
        * (self.customer_info[1].adults + self.customer_info[1].children
           + self.customer_info[1].infants)

\* TurkishFlightReservation::getAvailableFlights
Turkish_getAvailableFlights(flights) ==
    flights \o
    [i \in 1..Len(TurkishAirlineOnlineAPI_getAvailableFlights) |->
        [airline |-> "Turkish", price |-> TurkishAirlineOnlineAPI_getAvailableFlights[i].cost,
         from_date |-> TurkishAirlineOnlineAPI_getAvailableFlights[i].datetime_from,
         to_date |-> TurkishAirlineOnlineAPI_getAvailableFlights[i].datetime_to]]

\* -------------------------------------------------------- hotel adapters
\* HiltonHotelReservation::HiltonHotelReservation()
Hilton_ctor ==
    [kind |-> "Hilton", customer_info |-> <<HiltonCustomerInfo_default>>,
     chosen |-> <<HiltonRoom_default>>, Reservations |-> <<>>]

\* HiltonHotelReservation::setCustomerInfo(CustomerInfo_ptr &&info)
Hilton_setCustomerInfo(self, info) ==
    [self EXCEPT !.customer_info[1].adults = info[1].adults,
                 !.customer_info[1].children = info[1].children,
                 !.customer_info[1].needed_rooms = info[1].needed_rooms,
                 !.customer_info[1].number_of_nights = info[1].number_of_nights]

\* HiltonHotelReservation::setChosenRoomInfo(RoomInfo_ptr &&room_info):
\* available_number is not copied.
Hilton_setChosenRoomInfo(self, room_info) ==
    [self EXCEPT !.chosen[1].price_per_night = room_info[1].price_for_night,
                 !.chosen[1].room_type = room_info[1].view_type,
                 !.chosen[1].from_date = room_info[1].from_date,
                 !.chosen[1].to_date = room_info[1].to_date]

\* HiltonHotelReservation(CustomerInfo_ptr&&, RoomInfo_ptr&&)
Hilton_ctorFrom(customer_info, chosen_room) ==
    Hilton_setChosenRoomInfo(Hilton_setCustomerInfo(Hilton_ctor, customer_info), chosen_room)

\* HiltonHotelReservation(const HiltonHotelReservation &other)
Hilton_copyCtor(other) ==
    [Hilton_ctor EXCEPT !.customer_info[1] = other.customer_info[1],
                        !.chosen[1] = other.chosen[1]]

\* faulty variant: the room count is left out of the product
Hilton_getCost_noRooms(self) ==
    self.chosen[1].price_per_night * self.customer_info[1].number_of_nights

\* HiltonHotelReservation::getCost
Hilton_getCost(self) ==
    self.chosen[1].price_per_night * self.customer_info[1].number_of_nights
        * self.customer_info[1].needed_rooms

\* HiltonHotelReservation::getAvailableRooms(std::vector<FoundRoomInfo> &&rooms)
Hilton_getAvailableRooms(rooms) ==
    rooms \o
    [i \in 1..Len(HiltonHotelAPI_searchRooms) |->
        [hotel |-> "Hilton", from_date |-> HiltonHotelAPI_searchRooms[i].from_date,
         to_date |-> HiltonHotelAPI_searchRooms[i].to_date,
         view_type |-> HiltonHotelAPI_searchRooms[i].room_type,
         how_many |-> HiltonHotelAPI_searchRooms[i].available_number,
         price_for_night |-> HiltonHotelAPI_searchRooms[i].price_per_night]]

\* MarriottHotelReservation::MarriottHotelReservation()
Marriott_ctor ==
    [kind |-> "Marriott", customer_info |-> <<MarriottCustomerInfo_default>>,
     chosen |-> <<MarriottFoundRoom_default>>, Reservations |-> <<>>]

\* MarriottHotelReservation::setCustomerInfo
Marriott_setCustomerInfo(self, info) ==
    [self EXCEPT !.customer_info[1].adults = info[1].adults,
                 !.customer_info[1].children = info[1].children,
                 !.customer_info[1].needed_rooms = info[1].needed_rooms,
                 !.customer_info[1].number_of_nights = info[1].number_of_nights]

\* MarriottHotelReservation::setChosenRoomInfo
Marriott_setChosenRoomInfo(self, room_info) ==
    [self EXCEPT !.chosen[1].price_per_night = room_info[1].price_for_night,
                 !.chosen[1].room_type = room_info[1].view_type,
                 !.chosen[1].date_from = room_info[1].from_date,
                 !.chosen[1].date_to = room_info[1].to_date]

\* MarriottHotelReservation(CustomerInfo_ptr&&, RoomInfo_ptr&&)
Marriott_ctorFrom(customer_info, chosen_room) ==
    Marriott_setChosenRoomInfo(Marriott_setCustomerInfo(Marriott_ctor, customer_info),
                               chosen_room)

\* MarriottHotelReservation(const MarriottHotelReservation &other)
Marriott_copyCtor(other) ==
    [Marriott_ctor EXCEPT
        !.customer_info = IF other.customer_info # <<>> THEN <<other.customer_info[1]>> ELSE @,
        !.chosen = IF other.chosen # <<>> THEN <<other.chosen[1]>> ELSE @]

\* MarriottHotelReservation::getCost
Marriott_getCost(self) ==
    self.chosen[1].price_per_night * self.customer_info[1].number_of_nights
        * self.customer_info[1].needed_rooms

\* MarriottHotelReservation::getAvailableRooms
Marriott_getAvailableRooms(rooms) ==
    rooms \o
    [i \in 1..Len(MarriottHotelAPI_findRooms) |->
        [hotel |-> "Marriott", from_date |-> MarriottHotelAPI_findRooms[i].date_from,
         to_date |-> MarriottHotelAPI_findRooms[i].date_to,
         view_type |-> MarriottHotelAPI_findRooms[i].room_type,
         how_many |-> MarriottHotelAPI_findRooms[i].available_number,
         price_for_night |-> MarriottHotelAPI_findRooms[i].price_per_night]]

\* ------------------------------------------------- Reservation (virtual)
RECURSIVE getCost(_, _), Sum(_, _, _), clone(_, _), Itinerary_copyElements(_, _, _, _),
          destroy(_, _), destroyAll(_, _, _), Valid(_, _, _), View(_, _, _), Owned(_, _, _),
          Sum_overwrite(_, _, _)

\* faulty variant: the functor assigns (sum = cost) instead of accumulating
Sum_overwrite(h, reservations, k) ==
    IF k > Len(reservations) THEN 0
    ELSE IF k = Len(reservations) THEN getCost(h, reservations[k])
    ELSE Sum_overwrite(h, reservations, k + 1)

\* Sum<double> applied by std::for_each: sum += reservation->getCost()
Sum(h, reservations, k) ==
    IF k > Len(reservations) THEN 0
    ELSE getCost(h, reservations[k]) + Sum(h, reservations, k + 1)

\* Itinerary::getCost
Itinerary_getCost(h, it) == Sum(h, h[it].Reservations, 1)

\* Priced::getCost through the vtable of the object in slot id
getCost(h, id) ==
    CASE h[id].kind = "Canada" -> Canada_getCost(h[id])
      [] h[id].kind = "Turkish" -> Turkish_getCost(h[id])
      [] h[id].kind = "Hilton" -> Hilton_getCost(h[id])
      [] h[id].kind = "Marriott" -> Marriott_getCost(h[id])
      [] h[id].kind = "Itinerary" -> Itinerary_getCost(h, id)

\* Itinerary::Itinerary() = default
Itinerary_ctor ==
    [kind |-> "Itinerary", customer_info |-> <<>>, chosen |-> <<>>, Reservations |-> <<>>]

\* faulty variant: the vector takes the caller's object instead of a clone
Itinerary_addReservation_noClone(h, it, reservation) ==
    [h EXCEPT ![it].Reservations = Append(@, reservation)]

\* Itinerary::addReservation: Reservations.push_back(reservation->clone())
Itinerary_addReservation(h, it, reservation) ==
    LET c == clone(h, reservation)
    IN  [c.heap EXCEPT ![it].Reservations = Append(@, c.ptr)]

\* faulty variant: the copy takes over other's element pointers
Itinerary_copyElements_shallow(h, self, other, k) ==
    [h EXCEPT ![self].Reservations = h[other].Reservations]

\* the loop of Itinerary(const Itinerary&) and of operator=(Itinerary&):
\* for (reservation : other.Reservations) addReservation(reservation)
Itinerary_copyElements(h, self, other, k) ==
    IF k > Len(h[other].Reservations) THEN h
    ELSE Itinerary_copyElements(
             Itinerary_addReservation(h, self, h[other].Reservations[k]), self, other, k + 1)

\* Itinerary::clone: std::make_unique<Itinerary>(*this)
Itinerary_clone(h, it) ==
    LET n == Alloc(h)
    IN  [heap |-> Itinerary_copyElements([h EXCEPT ![n] = Itinerary_ctor], n, it, 1),
         ptr |-> n]

\* <Adapter>::clone: std::make_unique<Adapter>(*this)
Adapter_clone(h, id) ==
    LET n == Alloc(h)
        copy == CASE h[id].kind = "Canada" -> Canada_copyCtor(h[id])
                  [] h[id].kind = "Turkish" -> Turkish_copyCtor(h[id])
                  [] h[id].kind = "Hilton" -> Hilton_copyCtor(h[id])
                  [] h[id].kind = "Marriott" -> Marriott_copyCtor(h[id])
    IN  [heap |-> [h EXCEPT ![n] = copy], ptr |-> n]

\* Reservation::clone through the vtable
clone(h, id) ==
    IF h[id].kind = "Itinerary" THEN Itinerary_clone(h, id) ELSE Adapter_clone(h, id)

\* delete of the object in slot id (unique_ptr's deleter): ~Itinerary runs
\* Reservations.clear(), which deletes every element; adapters release
\* their two records.
destroy(h, id) ==
    IF ~IsLive(h, id) THEN h
    ELSE destroyAll([h EXCEPT ![id] = FreeSlot], h[id].Reservations, 1)

destroyAll(h, reservations, k) ==
    IF k > Len(reservations) THEN h
    ELSE destroyAll(destroy(h, reservations[k]), reservations, k + 1)

\* faulty variant: only the last element is removed
Itinerary_clear_dropLast(h, it) ==
    IF h[it].Reservations = <<>> THEN h
    ELSE [destroy(h, h[it].Reservations[Len(h[it].Reservations)]) EXCEPT
             ![it].Reservations = SubSeq(@, 1, Len(@) - 1)]

\* Itinerary::clear: Reservations.clear()
Itinerary_clear(h, it) ==
    [destroyAll(h, h[it].Reservations, 1) EXCEPT ![it].Reservations = <<>>]

\* Itinerary::isEmpty
Itinerary_isEmpty(h, it) == IF h[it].Reservations = <<>> THEN TRUE ELSE FALSE

\* Itinerary::operator=(Itinerary &other): other's elements are added to
\* whatever Reservations already holds
Itinerary_copyAssign(h, self, other) ==
    IF self # other THEN Itinerary_copyElements(h, self, other, 1) ELSE h

\* faulty variant: the moved-from itinerary keeps its element pointers
Itinerary_moveCtor_keeping(h, other) ==
    LET n == Alloc(h)
    IN  [heap |-> [h EXCEPT ![n] = [Itinerary_ctor EXCEPT
                                       !.Reservations = h[other].Reservations]],
         ptr |-> n]

\* Itinerary(Itinerary &&other), for make_unique<Itinerary>(std::move(other)):
\* Reservations(std::move(other.Reservations))
Itinerary_moveCtor(h, other) ==
    LET n == Alloc(h)
    IN  [heap |-> [h EXCEPT ![n] = [Itinerary_ctor EXCEPT
                                       !.Reservations = h[other].Reservations],
                            ![other].Reservations = <<>>],
         ptr |-> n]

\* Itinerary::operator=(Itinerary &&other): the vector's move assignment
\* deletes the target's elements and takes over other's buffer
Itinerary_moveAssign(h, self, other) ==
    IF self # other
    THEN [destroyAll(h, h[self].Reservations, 1) EXCEPT
             ![self].Reservations = h[other].Reservations,
             ![other].Reservations = <<>>]
    ELSE h

\* ------------------------------------------------------------- getDetails
\* An output stream is the sequence of items written to it; out holds the
\* stream passed as get and std::cout.
RECURSIVE getDetails(_, _, _), Itinerary_getDetailsLoop(_, _, _, _)

\* CanadaFlightReservation::getDetails
Canada_getDetails(self, out) ==
    [out EXCEPT !.get = Append(@, <<"AirCanada", self.customer_info[1].adults,
                                    self.customer_info[1].children,
                                    self.customer_info[1].infants, Canada_getCost(self)>>)]

\* TurkishFlightReservation::getDetails
Turkish_getDetails(self, out) ==
    [out EXCEPT !.get = Append(@, <<"Turkish", self.customer_info[1].adults,
                                    self.customer_info[1].children,
                                    self.customer_info[1].infants, Turkish_getCost(self)>>)]

\* HiltonHotelReservation::getDetails
Hilton_getDetails(self, out) ==
    [out EXCEPT !.get = Append(@, <<"Hilton", self.customer_info[1].number_of_nights,
                                    self.customer_info[1].adults,
                                    self.customer_info[1].children, Hilton_getCost(self)>>)]

\* MarriottHotelReservation::getDetails
Marriott_getDetails(self, out) ==
    [out EXCEPT !.get = Append(@, <<"Marriott", self.customer_info[1].number_of_nights,
                                    self.customer_info[1].adults,
                                    self.customer_info[1].children, Marriott_getCost(self)>>)]

\* the loop of Itinerary::getDetails:
\* reservation->getDetails(std::move(get)); std::cout << "\n";
Itinerary_getDetailsLoop(h, reservations, k, out) ==
    IF k > Len(reservations) THEN out
    ELSE Itinerary_getDetailsLoop(h, reservations, k + 1,
             [getDetails(h, reservations[k], out) EXCEPT !.cout = Append(@, <<"\n">>)])

\* Itinerary::getDetails
Itinerary_getDetails(h, id, out) ==
    LET o1 == [out EXCEPT !.get = Append(@, <<"Itinerary of", Len(h[id].Reservations)>>)]
        o2 == Itinerary_getDetailsLoop(h, h[id].Reservations, 1, o1)
    IN  [o2 EXCEPT !.get = @ \o << <<"Itinerary Cost", Itinerary_getCost(h, id)>>,
                                   <<"----------------------------------">> >>]

\* Printable::getDetails through the vtable
getDetails(h, id, out) ==
    CASE h[id].kind = "Canada" -> Canada_getDetails(h[id], out)
      [] h[id].kind = "Turkish" -> Turkish_getDetails(h[id], out)
      [] h[id].kind = "Hilton" -> Hilton_getDetails(h[id], out)
      [] h[id].kind = "Marriott" -> Marriott_getDetails(h[id], out)
      [] h[id].kind = "Itinerary" -> Itinerary_getDetails(h, id, out)

\* ------------------------------------------------------- observation aids
\* The object in slot id can be used: it is alive, its records are held,
\* and so is every reservation below it (fuel bounds the descent).
Valid(h, id, fuel) ==
    /\ fuel > 0
    /\ IsLive(h, id)
    /\ IF h[id].kind = "Itinerary"
       THEN \A k \in 1..Len(h[id].Reservations) : Valid(h, h[id].Reservations[k], fuel - 1)
       ELSE h[id].customer_info # <<>> /\ h[id].chosen # <<>>

\* The value an observer can read through pointer id, slot numbers removed.
View(h, id, fuel) ==
    IF id = nullptr THEN [kind |-> "nullptr", customer_info |-> <<>>, chosen |-> <<>>, elems |-> <<>>]
    ELSE IF fuel = 0 \/ ~IsLive(h, id)
    THEN [kind |-> "destroyed", customer_info |-> <<>>, chosen |-> <<>>, elems |-> <<>>]
    ELSE [kind |-> h[id].kind, customer_info |-> h[id].customer_info, chosen |-> h[id].chosen,
          elems |-> [k \in 1..Len(h[id].Reservations) |->
                        View(h, h[id].Reservations[k], fuel - 1)]]

\* slots reachable from pointer id, itself included
Owned(h, id, fuel) ==
    IF id = nullptr \/ fuel = 0 \/ ~IsLive(h, id) THEN {}
    ELSE {id} \cup UNION {Owned(h, h[id].Reservations[k], fuel - 1) :
                            k \in 1..Len(h[id].Reservations)}

Fuel == MaxObj + 1
ValidPtr(h, id) == Valid(h, id, Fuel)
ViewOf(h, id) == View(h, id, Fuel)
OwnedBy(h, id) == Owned(h, id, Fuel)
\* number of objects a clone of id allocates
Size(h, id) == Cardinality(OwnedBy(h, id))

\* ------------------------------------------------------------------ state
VARIABLES
    heap,       \* the object heap
    x,          \* client code: an Itinerary it owns (slot number)
    c,          \* client code: Reservation_ptr holding a clone, or nullptr
    item,       \* client code: Reservation_ptr holding a built adapter, or nullptr
    added,      \* history: per itinerary handle, the costs of the reservations
                \* passed to addReservation since its construction or last clear
    last,       \* history: the operation that produced this state
    ops,        \* history: number of operations performed so far
    pc,         \* Manager::runManager: the menu the program is waiting at
    Users,      \* UserManager::Users
    logged_user,\* UserManager::logged_user: index into Users, 0 = nullptr
    it,         \* ItineraryBuilder::it (slot number)
    reserve,    \* ItineraryBuilder::reserve: MakeReservation's four records
    Trans_Info, \* PaymentHandler::Trans_Info
    out_flights,  \* the vector the flight adapters are asked to fill
    out_rooms,    \* the vector the hotel adapters are asked to fill
    asked,      \* how many of Airports / Hotels have been asked so far
    get,        \* the stream handed to getDetails
    cout        \* std::cout

clientVars == <<x, c, item, added, ops>>
appVars == <<pc, Users, logged_user, it, reserve, Trans_Info>>
queryVars == <<out_flights, out_rooms, asked>>
streamVars == <<get, cout>>
vars == <<heap, last, clientVars, appVars, queryVars, streamVars>>

Ptr(hd) == CASE hd = "x" -> x [] hd = "c" -> c [] hd = "item" -> item

\* ------------------------------------------------- inputs of the client code
MergedFlights == Turkish_getAvailableFlights(Canada_getAvailableFlights(<<>>))
MergedRooms == Marriott_getAvailableRooms(Hilton_getAvailableRooms(<<>>))

\* the booking of the spec's scenarios and one more of each kind
ScenarioPassenger == [adults |-> 2, children |-> 1, infants |-> 0]
ScenarioCustomer == [adults |-> 2, children |-> 0, needed_rooms |-> 2, number_of_nights |-> 3]
ScenarioFlights == {MergedFlights[1], MergedFlights[4]}
ScenarioRooms == {MergedRooms[2], MergedRooms[5]}

\* make_unique<Adapter>(std::move(info), std::move(chosen)) for the adapter brand names
NewAdapter(brand, info, chosen) ==
    CASE brand = "Canada" -> Canada_ctorFrom(info, chosen)
      [] brand = "Turkish" -> Turkish_ctorFrom(info, chosen)
      [] brand = "Hilton" -> Hilton_ctorFrom(info, chosen)
      [] brand = "Marriott" -> Marriott_ctorFrom(info, chosen)

\* MakeReservation::MakeReservation(): the four records start as nullptr and
\* one default-constructed adapter of each brand is registered
MakeReservation_ctor ==
    [passenger_info |-> <<>>, customer_info |-> <<>>, chosen_flight |-> <<>>,
     chosen_room |-> <<>>,
     Airports |-> <<Canada_ctor, Turkish_ctor>>,
     Hotels |-> <<Hilton_ctor, Marriott_ctor>>]

\* TransactionInfo() = default
TransactionInfo_default == [method |-> "", money |-> 0]

\* the Manager is not running while client code drives the classes directly
NoApp ==
    /\ pc = "none"
    /\ Users = <<>>
    /\ logged_user = 0
    /\ it = nullptr
    /\ reserve = MakeReservation_ctor
    /\ Trans_Info = TransactionInfo_default

\* no adapter is being queried
NoQuery ==
    /\ out_flights = <<>>
    /\ out_rooms = <<>>
    /\ asked = [airports |-> 0, hotels |-> 0]

\* nothing has been written yet
NoOutput == get = <<>> /\ cout = <<>>

\* one more operation of the run
Tick == ops < MaxOps /\ ops' = ops + 1 /\ UNCHANGED <<appVars, queryVars, streamVars>>

\* ------------------------------------------- Itinerary used by client code
Init ==
    /\ heap = [EmptyHeap EXCEPT ![1] = Itinerary_ctor]
    /\ x = 1
    /\ c = nullptr
    /\ item = nullptr
    /\ added = [hd \in {"x", "c"} |-> <<>>]
    /\ last = [op |-> "init", target |-> "", src |-> ""]
    /\ ops = 0
    /\ NoApp /\ NoQuery /\ NoOutput

\* item = std::make_unique<Adapter>(criteria, offer); the adapter item held
\* before is deleted by the assignment.
MakeFlightItem(offer) ==
    /\ Tick
    /\ FreeIds(heap) # {}
    /\ LET n == Alloc(heap)
           h1 == [heap EXCEPT ![n] = NewAdapter(offer.airline, <<ScenarioPassenger>>, <<offer>>)]
       IN  /\ heap' = destroy(h1, item)
           /\ item' = n
    /\ last' = [op |-> "makeItem", target |-> "item", src |-> ""]
    /\ UNCHANGED <<x, c, added>>

MakeHotelItem(offer) ==
    /\ Tick
    /\ FreeIds(heap) # {}
    /\ LET n == Alloc(heap)
           h1 == [heap EXCEPT ![n] = NewAdapter(offer.hotel, <<ScenarioCustomer>>, <<offer>>)]
       IN  /\ heap' = destroy(h1, item)
           /\ item' = n
    /\ last' = [op |-> "makeItem", target |-> "item", src |-> ""]
    /\ UNCHANGED <<x, c, added>>

\* t->addReservation(s)
AddReservation(t, s) ==
    /\ Tick
    /\ Ptr(t) # nullptr /\ heap[Ptr(t)].kind = "Itinerary"
    /\ Ptr(s) # nullptr
    /\ Len(heap[Ptr(t)].Reservations) < MaxLen
    /\ Size(heap, Ptr(s)) <= Cardinality(FreeIds(heap))
    /\ heap' = Itinerary_addReservation(heap, Ptr(t), Ptr(s))
    /\ added' = [added EXCEPT ![t] = Append(@, getCost(heap, Ptr(s)))]
    /\ last' = [op |-> "addReservation", target |-> t, src |-> s]
    /\ UNCHANGED <<x, c, item>>

\* t->clear()
Clear(t) ==
    /\ Tick
    /\ Ptr(t) # nullptr /\ heap[Ptr(t)].kind = "Itinerary"
    /\ heap' = Itinerary_clear(heap, Ptr(t))
    /\ added' = [added EXCEPT ![t] = <<>>]
    /\ last' = [op |-> "clear", target |-> t, src |-> ""]
    /\ UNCHANGED <<x, c, item>>

\* c = s->clone(); the object c held before is deleted by the assignment.
CloneTo(s) ==
    /\ Tick
    /\ Ptr(s) # nullptr
    /\ Size(heap, Ptr(s)) <= Cardinality(FreeIds(heap))
    /\ LET cl == clone(heap, Ptr(s))
       IN  /\ heap' = destroy(cl.heap, c)
           /\ c' = cl.ptr
    /\ added' = [added EXCEPT !["c"] =
                    [k \in 1..Len(heap[Ptr(s)].Reservations) |->
                        getCost(heap, heap[Ptr(s)].Reservations[k])]]
    /\ last' = [op |-> "clone", target |-> "c", src |-> s]
    /\ UNCHANGED <<x, item>>

\* c.reset() / item.reset()
Reset(hd) ==
    /\ Tick
    /\ Ptr(hd) # nullptr
    /\ heap' = destroy(heap, Ptr(hd))
    /\ c' = IF hd = "c" THEN nullptr ELSE c
    /\ item' = IF hd = "item" THEN nullptr ELSE item
    /\ added' = [added EXCEPT !["c"] = IF hd = "c" THEN <<>> ELSE @]
    /\ last' = [op |-> "reset", target |-> hd, src |-> ""]
    /\ UNCHANGED x

Next ==
    \/ \E offer \in ScenarioFlights : MakeFlightItem(offer)
    \/ \E offer \in ScenarioRooms : MakeHotelItem(offer)
    \/ \E t \in {"x", "c"} : \E s \in {"x", "c", "item"} \ {t} : AddReservation(t, s)
    \/ \E t \in {"x", "c"} : Clear(t)
    \/ \E s \in {"x", "item"} : CloneTo(s)
    \/ \E hd \in {"c", "item"} : Reset(hd)

Spec == Init /\ [][Next]_vars

\* ------------------------------------------- adapters used by client code
PaxVals == 0..MaxPax

PassengerInfos == [adults : PaxVals, children : PaxVals, infants : PaxVals]

CustomerInfos ==
    [adults : {2}, children : {0}, needed_rooms : PaxVals, number_of_nights : PaxVals]

FlightOffers == {MergedFlights[k] : k \in 1..Len(MergedFlights)} \cup {FoundFlightInfo_default}

RoomOffers == {MergedRooms[k] : k \in 1..Len(MergedRooms)} \cup {FoundRoomInfo_default}

InitAdapters ==
    /\ heap = EmptyHeap
    /\ x = nullptr
    /\ c = nullptr
    /\ item = nullptr
    /\ added = [hd \in {"x", "c"} |-> <<>>]
    /\ last = [op |-> "init", target |-> "", src |-> ""]
    /\ ops = 0
    /\ NoApp /\ NoQuery /\ NoOutput

\* item = std::make_unique<Brand>(std::move(info), std::move(chosen_flight))
BuildFlight(brand, info, offer) ==
    /\ Tick
    /\ item = nullptr /\ c = nullptr
    /\ LET n == Alloc(heap)
       IN  /\ heap' = [heap EXCEPT ![n] = NewAdapter(brand, <<info>>, <<offer>>)]
           /\ item' = n
    /\ last' = [op |-> "buildFlight", target |-> "item", src |-> "",
                brand |-> brand, info |-> info, chosen |-> offer]
    /\ UNCHANGED <<x, c, added>>

\* item = std::make_unique<Brand>(std::move(info), std::move(chosen_room))
BuildHotel(brand, info, offer) ==
    /\ Tick
    /\ item = nullptr /\ c = nullptr
    /\ LET n == Alloc(heap)
       IN  /\ heap' = [heap EXCEPT ![n] = NewAdapter(brand, <<info>>, <<offer>>)]
           /\ item' = n
    /\ last' = [op |-> "buildHotel", target |-> "item", src |-> "",
                brand |-> brand, info |-> info, chosen |-> offer]
    /\ UNCHANGED <<x, c, added>>

NextAdapters ==
    \/ \E brand \in FlightBrands, info \in PassengerInfos, offer \in FlightOffers :
           BuildFlight(brand, info, offer)
    \/ \E brand \in HotelBrands, info \in CustomerInfos, offer \in RoomOffers :
           BuildHotel(brand, info, offer)
    \/ CloneTo("item")
    \/ \E hd \in {"c", "item"} : Reset(hd)

SpecAdapters == InitAdapters /\ [][NextAdapters]_vars

\* ----------------------------------------- adapters moved by client code
\* Each move gives the new state of both objects: self (the target) and
\* other (the source).

\* what a unique_ptr member holds when it is read before its own
\* initialisation: nothing, or the address of stray memory (read here as a
\* default record)
Uninitialised(kind) ==
    CASE kind = "Canada" -> {[customer_info |-> <<>>, chosen |-> <<>>],
                             [customer_info |-> <<AirCanadaCustomerInfo_default>>,
                              chosen |-> <<AirCanadaFlight_default>>]}
      [] kind = "Turkish" -> {[customer_info |-> <<>>, chosen |-> <<>>],
                              [customer_info |-> <<TurkishCustomerInfo_default>>,
                               chosen |-> <<TurkishFlight_default>>]}
      [] OTHER -> {[customer_info |-> <<>>, chosen |-> <<>>]}

\* CanadaFlightReservation(CanadaFlightReservation &&other): each member is
\* initialised from itself, canada_customer_info(std::move(canada_customer_info));
\* other is not touched.  own is what the members held before.
Canada_moveCtor(other, own) ==
    [self |-> [Canada_ctor EXCEPT !.customer_info = own.customer_info,
                                  !.chosen = own.chosen],
     other |-> other]

\* CanadaFlightReservation::operator=(CanadaFlightReservation &&other): each
\* member is move-assigned to itself, which leaves it as it was
Canada_moveAssign(self, other) == [self |-> self, other |-> other]

\* TurkishFlightReservation(TurkishFlightReservation &&other): as Canada's
Turkish_moveCtor(other, own) ==
    [self |-> [Turkish_ctor EXCEPT !.customer_info = own.customer_info,
                                   !.chosen = own.chosen],
     other |-> other]

\* TurkishFlightReservation::operator=(TurkishFlightReservation &&other)
Turkish_moveAssign(self, other) ==
    [self |-> [self EXCEPT !.customer_info = other.customer_info, !.chosen = other.chosen],
     other |-> [other EXCEPT !.customer_info = <<>>, !.chosen = <<>>]]

\* HiltonHotelReservation(HiltonHotelReservation &&other)
Hilton_moveCtor(other, own) ==
    [self |-> [Hilton_ctor EXCEPT !.customer_info = other.customer_info,
                                  !.chosen = other.chosen],
     other |-> [other EXCEPT !.customer_info = <<>>, !.chosen = <<>>]]

\* HiltonHotelReservation::operator=(HiltonHotelReservation &&other)
Hilton_moveAssign(self, other) ==
    [self |-> [self EXCEPT !.customer_info = other.customer_info, !.chosen = other.chosen],
     other |-> [other EXCEPT !.customer_info = <<>>, !.chosen = <<>>]]

\* MarriottHotelReservation(MarriottHotelReservation &&other)
Marriott_moveCtor(other, own) ==
    [self |-> [Marriott_ctor EXCEPT !.customer_info = other.customer_info,
                                    !.chosen = other.chosen],
     other |-> [other EXCEPT !.customer_info = <<>>, !.chosen = <<>>]]

\* MarriottHotelReservation::operator=(MarriottHotelReservation &&other)
Marriott_moveAssign(self, other) ==
    [self |-> [self EXCEPT !.customer_info = other.customer_info, !.chosen = other.chosen],
     other |-> [other EXCEPT !.customer_info = <<>>, !.chosen = <<>>]]

\* the move constructor / move assignment of other's class
Adapter_moveCtor(other, own) ==
    CASE other.kind = "Canada" -> Canada_moveCtor(other, own)
      [] other.kind = "Turkish" -> Turkish_moveCtor(other, own)
      [] other.kind = "Hilton" -> Hilton_moveCtor(other, own)
      [] other.kind = "Marriott" -> Marriott_moveCtor(other, own)

Adapter_moveAssign(self, other) ==
    CASE other.kind = "Canada" -> Canada_moveAssign(self, other)
      [] other.kind = "Turkish" -> Turkish_moveAssign(self, other)
      [] other.kind = "Hilton" -> Hilton_moveAssign(self, other)
      [] other.kind = "Marriott" -> Marriott_moveAssign(self, other)

\* c = std::make_unique<Kind>(), Kind the class of *item
DefaultTarget ==
    /\ Tick
    /\ item # nullptr /\ c = nullptr
    /\ LET n == Alloc(heap)
       IN  /\ heap' = [heap EXCEPT ![n] = CASE heap[item].kind = "Canada" -> Canada_ctor
                                            [] heap[item].kind = "Turkish" -> Turkish_ctor
                                            [] heap[item].kind = "Hilton" -> Hilton_ctor
                                            [] heap[item].kind = "Marriott" -> Marriott_ctor]
           /\ c' = n
    /\ last' = [op |-> "defaultCtor", target |-> "c", src |-> ""]
    /\ UNCHANGED <<x, item, added>>

\* c = std::make_unique<Kind>(std::move(*item))
MoveConstructAdapter ==
    /\ Tick
    /\ item # nullptr /\ c = nullptr
    /\ \E own \in Uninitialised(heap[item].kind) :
          LET n == Alloc(heap)
              mv == Adapter_moveCtor(heap[item], own)
          IN  /\ heap' = [heap EXCEPT ![n] = mv.self, ![item] = mv.other]
              /\ c' = n
    /\ last' = [op |-> "adapterMoveCtor", target |-> "c", src |-> "item"]
    /\ UNCHANGED <<x, item, added>>

\* *c = std::move(*item), both of the same class
MoveAssignAdapter ==
    /\ Tick
    /\ item # nullptr /\ c # nullptr
    /\ heap[c].kind = heap[item].kind
    /\ LET mv == Adapter_moveAssign(heap[c], heap[item])
       IN  heap' = [heap EXCEPT ![c] = mv.self, ![item] = mv.other]
    /\ last' = [op |-> "adapterMoveAssign", target |-> "c", src |-> "item"]
    /\ UNCHANGED <<x, c, item, added>>

NextMoves ==
    \/ \E brand \in FlightBrands, info \in PassengerInfos, offer \in FlightOffers :
           BuildFlight(brand, info, offer)
    \/ \E brand \in HotelBrands, info \in CustomerInfos, offer \in RoomOffers :
           BuildHotel(brand, info, offer)
    \/ DefaultTarget
    \/ MoveConstructAdapter
    \/ MoveAssignAdapter

SpecMoves == InitAdapters /\ [][NextMoves]_vars

\* ------------------------------------- the adapters asked for their offers
\* MakeReservation::Airports and Hotels, in the order the constructor
\* registers them
Airports == <<"Canada", "Turkish">>
Hotels == <<"Hilton", "Marriott">>

\* FlightReservation::getAvailableFlights through the vtable
getAvailableFlights(brand, flights) ==
    CASE brand = "Canada" -> Canada_getAvailableFlights(flights)
      [] brand = "Turkish" -> Turkish_getAvailableFlights(flights)

\* HotelReservation::getAvailableRooms through the vtable
getAvailableRooms(brand, rooms) ==
    CASE brand = "Hilton" -> Hilton_getAvailableRooms(rooms)
      [] brand = "Marriott" -> Marriott_getAvailableRooms(rooms)

\* for (const auto &airport : Airports) airport->getAvailableFlights(...)
\* from the k-th registered adapter on: the adapters as the loop leaves them
\* and the vector it filled.  getAvailableFlights writes no member.
RECURSIVE askAirports_forgetting(_, _, _)
askAirports_forgetting(airports, k, flights) ==
    IF k > Len(airports) THEN [Airports |-> airports, flights |-> flights]
    ELSE askAirports_forgetting([airports EXCEPT ![k].chosen = <<>>], k + 1,
                                getAvailableFlights(airports[k].kind, flights))

RECURSIVE askAirports(_, _, _)
askAirports(airports, k, flights) ==
    IF k > Len(airports) THEN [Airports |-> airports, flights |-> flights]
    ELSE askAirports(airports, k + 1, getAvailableFlights(airports[k].kind, flights))

\* for (const auto &hotel : Hotels) hotel->getAvailableRooms(...)
RECURSIVE askHotels(_, _, _)
askHotels(hotels, k, rooms) ==
    IF k > Len(hotels) THEN [Hotels |-> hotels, rooms |-> rooms]
    ELSE askHotels(hotels, k + 1, getAvailableRooms(hotels[k].kind, rooms))

\* what the output vector may hold before the first adapter is asked
MaxPrior == 2
PriorFlights == {FoundFlightInfo_default, MergedFlights[1], MergedFlights[4]}
PriorRooms == {FoundRoomInfo_default, MergedRooms[2], MergedRooms[5]}
StartFlights == UNION {[1..n -> PriorFlights] : n \in 0..MaxPrior}
StartRooms == UNION {[1..n -> PriorRooms] : n \in 0..MaxPrior}

InitMerge ==
    /\ out_flights \in StartFlights
    /\ out_rooms \in StartRooms
    /\ asked = [airports |-> 0, hotels |-> 0]
    /\ last = [op |-> "init", start_flights |-> out_flights, start_rooms |-> out_rooms]
    /\ heap = EmptyHeap
    /\ x = nullptr /\ c = nullptr /\ item = nullptr
    /\ added = [hd \in {"x", "c"} |-> <<>>]
    /\ ops = 0
    /\ NoApp /\ NoOutput

\* one turn of: for (airport : Airports) airport->getAvailableFlights(out)
AskNextAirport ==
    /\ asked.airports < Len(Airports)
    /\ out_flights' = getAvailableFlights(Airports[asked.airports + 1], out_flights)
    /\ asked' = [asked EXCEPT !.airports = @ + 1]
    /\ last' = [last EXCEPT !.op = "askAirport"]
    /\ UNCHANGED <<heap, out_rooms, clientVars, appVars, streamVars>>

\* one turn of: for (hotel : Hotels) hotel->getAvailableRooms(out)
AskNextHotel ==
    /\ asked.hotels < Len(Hotels)
    /\ out_rooms' = getAvailableRooms(Hotels[asked.hotels + 1], out_rooms)
    /\ asked' = [asked EXCEPT !.hotels = @ + 1]
    /\ last' = [last EXCEPT !.op = "askHotel"]
    /\ UNCHANGED <<heap, out_flights, clientVars, appVars, streamVars>>

NextMerge == AskNextAirport \/ AskNextHotel

SpecMerge == InitMerge /\ [][NextMerge]_vars

\* --------------------- Itinerary copied, moved and printed by client code
IsItinerary(hd) == Ptr(hd) # nullptr /\ heap[Ptr(hd)].kind = "Itinerary"

\* the costs of the elements of the itinerary in slot id
ElementCosts(h, id) ==
    [k \in 1..Len(h[id].Reservations) |-> getCost(h, h[id].Reservations[k])]

\* c = std::make_unique<Itinerary>(*x); the object c held before is deleted
CopyConstruct(s) ==
    /\ Tick
    /\ IsItinerary(s)
    /\ Size(heap, Ptr(s)) <= Cardinality(FreeIds(heap))
    /\ LET cl == Itinerary_clone(heap, Ptr(s))
       IN  /\ heap' = destroy(cl.heap, c)
           /\ c' = cl.ptr
    /\ added' = [added EXCEPT !["c"] = ElementCosts(heap, Ptr(s))]
    /\ last' = [op |-> "copyCtor", target |-> "c", src |-> s]
    /\ UNCHANGED <<x, item>>

\* *t = *s
CopyAssign(t, s) ==
    /\ Tick
    /\ IsItinerary(t) /\ IsItinerary(s)
    /\ Len(heap[Ptr(t)].Reservations) + Len(heap[Ptr(s)].Reservations) <= MaxLen
    /\ Size(heap, Ptr(s)) <= Cardinality(FreeIds(heap))
    /\ heap' = Itinerary_copyAssign(heap, Ptr(t), Ptr(s))
    /\ added' = [added EXCEPT ![t] = IF t = s THEN @ ELSE @ \o ElementCosts(heap, Ptr(s))]
    /\ last' = [op |-> "copyAssign", target |-> t, src |-> s]
    /\ UNCHANGED <<x, c, item>>

\* c = std::make_unique<Itinerary>(std::move(*x)); the object c held before
\* is deleted
MoveConstruct(s) ==
    /\ Tick
    /\ IsItinerary(s)
    /\ FreeIds(heap) # {}
    /\ LET mv == Itinerary_moveCtor(heap, Ptr(s))
       IN  /\ heap' = destroy(mv.heap, c)
           /\ c' = mv.ptr
    /\ added' = [added EXCEPT !["c"] = added[s], ![s] = <<>>]
    /\ last' = [op |-> "moveCtor", target |-> "c", src |-> s]
    /\ UNCHANGED <<x, item>>

\* *t = std::move(*s)
MoveAssign(t, s) ==
    /\ Tick
    /\ IsItinerary(t) /\ IsItinerary(s)
    /\ heap' = Itinerary_moveAssign(heap, Ptr(t), Ptr(s))
    /\ added' = IF t = s THEN added ELSE [added EXCEPT ![t] = added[s], ![s] = <<>>]
    /\ last' = [op |-> "moveAssign", target |-> t, src |-> s,
                dropped |-> Len(heap[Ptr(t)].Reservations)]
    /\ UNCHANGED <<x, c, item>>

\* std::ostringstream sink; s->getDetails(std::move(sink))
GetDetails(s) ==
    /\ ops < MaxOps /\ ops' = ops + 1
    /\ Ptr(s) # nullptr
    /\ LET out == getDetails(heap, Ptr(s), [get |-> <<>>, cout |-> cout])
       IN  /\ get' = out.get
           /\ cout' = out.cout
    /\ last' = [op |-> "getDetails", target |-> "", src |-> s]
    /\ UNCHANGED <<heap, x, c, item, added, appVars, queryVars>>

NextItinerary ==
    \/ \E offer \in ScenarioFlights : MakeFlightItem(offer)
    \/ \E offer \in ScenarioRooms : MakeHotelItem(offer)
    \/ \E t \in {"x", "c"} : AddReservation(t, "item")
    \/ \E t \in {"x", "c"} : Clear(t)
    \/ CopyConstruct("x")
    \/ \E t \in {"x", "c"}, s \in {"x", "c"} : CopyAssign(t, s)
    \/ MoveConstruct("x")
    \/ \E t \in {"x", "c"}, s \in {"x", "c"} : MoveAssign(t, s)
    \/ \E s \in {"x", "c", "item"} : GetDetails(s)
    \/ \E hd \in {"c", "item"} : Reset(hd)

SpecItinerary == Init /\ [][NextItinerary]_vars

\* ------------------------------------------------------ MakeReservation
\* faulty variant: the two airlines are looked up the wrong way round
ReservationFactory_swapped(r, brand) ==
    IF brand = "Turkish" THEN <<Canada_ctorFrom(r.passenger_info, r.chosen_flight)>>
    ELSE IF brand = "Canada" THEN <<Turkish_ctorFrom(r.passenger_info, r.chosen_flight)>>
    ELSE IF brand = "Hilton" THEN <<Hilton_ctorFrom(r.customer_info, r.chosen_room)>>
    ELSE IF brand = "Marriott" THEN <<Marriott_ctorFrom(r.customer_info, r.chosen_room)>>
    ELSE <<>>

\* MakeReservation::ReservationFactory(brand): the records go to the
\* constructors as rvalue references and are only read there, so the
\* builder's unique_ptrs keep them.
ReservationFactory(r, brand) ==
    IF brand = "Canada" THEN <<Canada_ctorFrom(r.passenger_info, r.chosen_flight)>>
    ELSE IF brand = "Turkish" THEN <<Turkish_ctorFrom(r.passenger_info, r.chosen_flight)>>
    ELSE IF brand = "Hilton" THEN <<Hilton_ctorFrom(r.customer_info, r.chosen_room)>>
    ELSE IF brand = "Marriott" THEN <<Marriott_ctorFrom(r.customer_info, r.chosen_room)>>
    ELSE <<>>

\* MakeReservation::reservingFlight.  info is what the user typed for the
\* head counts, choice the number typed at the prompt; read is what the
\* element access yields when choice - 1 is no index of the vector.
reservingFlight(r, info, choice, read) ==
    LET r1 == [r EXCEPT !.passenger_info = <<[PassengerInfo_default EXCEPT
                                                 !.adults = info.adults,
                                                 !.children = info.children,
                                                 !.infants = info.infants]>>,
                        !.chosen_flight = <<FoundFlightInfo_default>>,
                        !.Airports = askAirports(r.Airports, 1, <<>>).Airports]
        available_flights == askAirports(r.Airports, 1, <<>>).flights
        n == Len(available_flights)
    IN  IF (choice = -1) \/ (choice > n)
        THEN [reserve |-> r1, result |-> <<>>, oob |-> FALSE, n |-> n]
        ELSE LET inside == (choice - 1) \in 0..(n - 1)
                 r2 == [r1 EXCEPT !.chosen_flight =
                            <<IF inside THEN available_flights[choice] ELSE read>>]
             IN  [reserve |-> r2,
                  result |-> ReservationFactory(r2, r2.chosen_flight[1].airline),
                  oob |-> ~inside, n |-> n]

\* MakeReservation::reservingRoom: adults, children and the number of nights
\* are read; needed_rooms is never asked for.
reservingRoom(r, info, choice, read) ==
    LET r1 == [r EXCEPT !.customer_info = <<[CustomerInfo_default EXCEPT
                                                !.adults = info.adults,
                                                !.children = info.children,
                                                !.number_of_nights = info.number_of_nights]>>,
                        !.chosen_room = <<FoundRoomInfo_default>>,
                        !.Hotels = askHotels(r.Hotels, 1, <<>>).Hotels]
        available_rooms == askHotels(r.Hotels, 1, <<>>).rooms
        n == Len(available_rooms)
    IN  IF (choice = -1) \/ (choice > n)
        THEN [reserve |-> r1, result |-> <<>>, oob |-> FALSE, n |-> n]
        ELSE LET inside == (choice - 1) \in 0..(n - 1)
                 r2 == [r1 EXCEPT !.chosen_room =
                            <<IF inside THEN available_rooms[choice] ELSE read>>]
             IN  [reserve |-> r2,
                  result |-> ReservationFactory(r2, r2.chosen_room[1].hotel),
                  oob |-> ~inside, n |-> n]

\* faulty variant: a workflow that returned nothing empties the itinerary
ItineraryBuilder_add_clearing(h, itp, result) ==
    IF result = <<>> THEN Itinerary_clear(h, itp)
    ELSE LET n == Alloc(h)
         IN  destroy(Itinerary_addReservation([h EXCEPT ![n] = result[1]], itp, n), n)

\* ItineraryBuilder::addFlight / addHotel after the workflow returned:
\* nothing for nullptr; otherwise the reservation is cloned into the
\* itinerary and the local unique_ptr deletes the original on return.
ItineraryBuilder_add(h, itp, result) ==
    IF result = <<>> THEN h
    ELSE LET n == Alloc(h)
         IN  destroy(Itinerary_addReservation([h EXCEPT ![n] = result[1]], itp, n), n)

\* --------------------------------------------------------------- payment
\* PaymentHandler::setTransactionInfo.  methodInput is the first answer;
\* rest tells how the five remaining prompts go: "ok", "cancel" (one of
\* them is answered e/E) or "badccv" (the ccv is no number: std::stoi throws).
setTransactionInfo(t, methodInput, rest) ==
    IF methodInput \in {"e", "E"} THEN [info |-> t, ret |-> "false"]
    ELSE LET t1 == IF methodInput = "1" THEN [t EXCEPT !.method = "paypal"]
                   ELSE IF methodInput = "2" THEN [t EXCEPT !.method = "stripe"]
                   ELSE IF methodInput = "3" THEN [t EXCEPT !.method = "square"]
                   ELSE t
         IN  [info |-> t1,
              ret |-> IF rest = "cancel" THEN "false"
                      ELSE IF rest = "badccv" THEN "throw" ELSE "true"]

\* PaymentFactory::getPaymentMethod
PaymentFactory_getPaymentMethod(method) ==
    IF method = "paypal" THEN "PaypalPayment"
    ELSE IF method = "stripe" THEN "StripePayment"
    ELSE IF method = "square" THEN "SquarePayment"
    ELSE "nullptr"

\* MakePayment::pay: handed is the amount given to payment->makePayment;
\* the three vendor stubs answer true.
MakePayment_pay(info) ==
    LET payment == PaymentFactory_getPaymentMethod(info.method)
    IN  IF payment = "nullptr" THEN [ret |-> FALSE, handed |-> <<>>]
        ELSE [ret |-> TRUE, handed |-> <<info.money>>]

\* ------------------------------------------------------------------ users
\* faulty variant: the user's list takes the working itinerary itself
User_addItinerary_alias(h, users, u, itp) ==
    [heap |-> h, users |-> [users EXCEPT ![u].Itineraries = Append(@, itp)]]

\* User::addItinerary: it->clone() makes a copy, User::dynamicCast releases
\* it from its unique_ptr and returns make_unique<Itinerary>(*it), a second
\* copy; the first one is left allocated.
User_addItinerary(h, users, u, itp) ==
    LET first == Itinerary_clone(h, itp)
        second == Itinerary_clone(first.heap, first.ptr)
    IN  [heap |-> second.heap,
         users |-> [users EXCEPT ![u].Itineraries = Append(@, second.ptr)]]

\* faulty variant: the first registered user gets the itinerary
addItineraryToUser_first(h, users, logged, itp) ==
    IF users = <<>> THEN [heap |-> h, users |-> users]
    ELSE User_addItinerary(h, users, 1, itp)

\* UserManager::addItineraryToUser
addItineraryToUser(h, users, logged, itp) ==
    IF logged = 0 THEN [heap |-> h, users |-> users]
    ELSE User_addItinerary(h, users, logged, itp)

\* faulty variant: the itinerary is attached whatever the payment answers
Manager_save_unpaid(h, users, logged, itp, t, methodInput, rest) ==
    LET cost == Itinerary_getCost(h, itp)
        sti == setTransactionInfo(t, methodInput, rest)
        paid == MakePayment_pay(sti.info)
        stored == addItineraryToUser(h, users, logged, itp)
    IN  IF Itinerary_isEmpty(h, itp)
        THEN [heap |-> h, users |-> users, info |-> t, outcome |-> "empty", cost |-> cost,
              set |-> "notcalled", pay |-> "notcalled", handed |-> <<>>]
        ELSE IF sti.ret # "true"
        THEN [heap |-> h, users |-> users, info |-> sti.info,
              outcome |-> IF sti.ret = "throw" THEN "throw" ELSE "cancelled", cost |-> cost,
              set |-> sti.ret, pay |-> "notcalled", handed |-> <<>>]
        ELSE [heap |-> Itinerary_clear(stored.heap, itp), users |-> stored.users,
              info |-> sti.info, outcome |-> IF paid.ret THEN "paid" ELSE "notPaid",
              cost |-> cost, set |-> "true",
              pay |-> IF paid.ret THEN "true" ELSE "false", handed |-> paid.handed]

\* Manager::save: what it leaves behind (heap, users, info) and what
\* happened on the way: outcome, the cost of the working itinerary when it
\* was called, what setTransactionInfo (set) and makeThePayment (pay)
\* returned, and the amount handed to makePayment.
Manager_save(h, users, logged, itp, t, methodInput, rest) ==
    LET cost == Itinerary_getCost(h, itp)
        sti == setTransactionInfo(t, methodInput, rest)
        paid == MakePayment_pay(sti.info)
        stored == addItineraryToUser(h, users, logged, itp)
    IN  IF Itinerary_isEmpty(h, itp)          \* checkItinerary(): "Empty Itinerary."
        THEN [heap |-> h, users |-> users, info |-> t, outcome |-> "empty", cost |-> cost,
              set |-> "notcalled", pay |-> "notcalled", handed |-> <<>>]
        ELSE IF sti.ret = "throw"             \* std::invalid_argument, never caught
        THEN [heap |-> h, users |-> users, info |-> sti.info, outcome |-> "throw",
              cost |-> cost, set |-> "throw", pay |-> "notcalled", handed |-> <<>>]
        ELSE IF sti.ret = "false"
        THEN [heap |-> h, users |-> users, info |-> sti.info, outcome |-> "cancelled",
              cost |-> cost, set |-> "false", pay |-> "notcalled", handed |-> <<>>]
        ELSE IF ~paid.ret
        THEN [heap |-> h, users |-> users, info |-> sti.info, outcome |-> "notPaid",
              cost |-> cost, set |-> "true", pay |-> "false", handed |-> paid.handed]
        ELSE [heap |-> Itinerary_clear(stored.heap, itp), users |-> stored.users,
              info |-> sti.info, outcome |-> "paid", cost |-> cost, set |-> "true",
              pay |-> "true", handed |-> paid.handed]

\* UserManager::checkUsernameExistence / checkUserEmailExistence
checkUsernameExistence(users, username) ==
    \E k \in 1..Len(users) : users[k].username = username
checkUserEmailExistence(users, email) ==
    \E k \in 1..Len(users) : users[k].email = email

\* faulty variant: only the username is looked up
signUpUser_nameOnly(users, username, pass, email) ==
    IF checkUsernameExistence(users, username)
    THEN users
    ELSE Append(users, [username |-> username, password |-> pass, email |-> email,
                        Itineraries |-> <<>>])

\* UserManager::signUpUser with the three texts read from std::cin
signUpUser(users, username, pass, email) ==
    IF checkUsernameExistence(users, username) \/ checkUserEmailExistence(users, email)
    THEN users
    ELSE Append(users, [username |-> username, password |-> pass, email |-> email,
                        Itineraries |-> <<>>])

\* the loop of UserManager::signInUser from user k on: token is the text
\* last read, input the text still to be read, logged the logged_user so far
RECURSIVE signInLoop(_, _, _, _, _)
signInLoop(users, k, token, input, logged) ==
    IF k > Len(users) THEN logged
    ELSE IF users[k].username = token
         THEN IF users[k].password = Head(input)
              THEN signInLoop(users, k + 1, Head(input), Tail(input), k)
              ELSE logged
         ELSE signInLoop(users, k + 1, token, input, logged)

\* UserManager::signInUser: input is what std::cin holds, the username first
signInUser(users, logged, input) == signInLoop(users, 1, Head(input), Tail(input), logged)

\* UserManager::logoutUser
logoutUser(logged) == 0

\* ------------------------------------------- UserManager used by client code
MaxUsers == 2        \* users that can be registered
MaxSteps == 7        \* menu choices made in one run of the Manager

UserNames == {"ann", "bob"}
UserPasswords == {"bob", "pw1"}
UserEmails == {"ann@x", "bob@x"}
\* what std::cin holds when signInUser is called: a username and as many
\* further texts as the loop can ask for
SignInTexts == [1..(MaxUsers + 1) -> UserNames \cup UserPasswords]

\* the calls below leave the other handles and the step counter alone
UsersFrame == UNCHANGED <<x, c, item, added, ops, queryVars, streamVars, pc, reserve, Trans_Info>>

\* a UserManager without users, and a working itinerary holding one flight
InitUsers ==
    /\ heap = [EmptyHeap EXCEPT
                  ![1] = [Itinerary_ctor EXCEPT !.Reservations = <<2>>],
                  ![2] = Canada_ctorFrom(<<ScenarioPassenger>>, <<MergedFlights[1]>>)]
    /\ it = 1
    /\ Users = <<>>
    /\ logged_user = 0
    /\ pc = "none"
    /\ reserve = MakeReservation_ctor
    /\ Trans_Info = TransactionInfo_default
    /\ last = [op |-> "init"]
    /\ x = nullptr /\ c = nullptr /\ item = nullptr
    /\ added = [hd \in {"x", "c"} |-> <<>>]
    /\ ops = 0
    /\ NoQuery /\ NoOutput

SignUpUser(username, pass, email) ==
    /\ Len(Users) < MaxUsers
    /\ Users' = signUpUser(Users, username, pass, email)
    /\ last' = [op |-> "signUpUser", username |-> username, pass |-> pass, email |-> email]
    /\ UNCHANGED <<heap, logged_user, it>>
    /\ UsersFrame

\* runManager offers Sign In only while nobody is logged in
SignInUser(input) ==
    /\ logged_user = 0
    /\ logged_user' = signInUser(Users, logged_user, input)
    /\ last' = [op |-> "signInUser", input |-> input]
    /\ UNCHANGED <<heap, Users, it>>
    /\ UsersFrame

LogoutUser ==
    /\ logged_user # 0
    /\ logged_user' = logoutUser(logged_user)
    /\ last' = [op |-> "logoutUser"]
    /\ UNCHANGED <<heap, Users, it>>
    /\ UsersFrame

AddItineraryToUser ==
    /\ 2 * Size(heap, it) <= Cardinality(FreeIds(heap))
    /\ LET r == addItineraryToUser(heap, Users, logged_user, it)
       IN  heap' = r.heap /\ Users' = r.users
    /\ last' = [op |-> "addItineraryToUser"]
    /\ UNCHANGED <<logged_user, it>>
    /\ UsersFrame

NextUsers ==
    \/ \E username \in UserNames, pass \in UserPasswords, email \in UserEmails :
           SignUpUser(username, pass, email)
    \/ \E input \in SignInTexts : SignInUser(input)
    \/ LogoutUser
    \/ AddItineraryToUser

SpecUsers == InitUsers /\ [][NextUsers]_vars

\* ------------------------------------------------------------ the Manager

SignUpInputs ==
    { [username |-> "ann", password |-> "pw1", email |-> "ann@x"],
      [username |-> "bob", password |-> "pw2", email |-> "bob@x"] }
SignInNames == {"ann", "bob", "zed"}
SignInPasswords == {"pw1", "pw2"}
FlightChoices == {-1, 0, 1, 4, 5}
RoomChoices == {-1, 0, 2, 5}
\* operator>> into an int takes any integer, a negative one included
FlightCriteria == {ScenarioPassenger, [adults |-> -1, children |-> 0, infants |-> 0]}
RoomCriteria == {[adults |-> 2, children |-> 0, number_of_nights |-> 3]}
MethodInputs == {"1", "e", "x"}
RestInputs == {"ok", "cancel", "badccv"}
\* what an element access outside the vector may yield
StrayFlights == {FoundFlightInfo_default, [MergedFlights[4] EXCEPT !.price = 1]}
StrayRooms == {FoundRoomInfo_default, [MergedRooms[5] EXCEPT !.price_for_night = 1]}

\* one more step of the menu program; the client handles are not in use
Step ==
    ops < MaxSteps /\ ops' = ops + 1 /\ UNCHANGED <<x, c, item, added, queryVars, streamVars>>

InitManager ==
    /\ heap = [EmptyHeap EXCEPT ![1] = Itinerary_ctor]
    /\ it = 1
    /\ reserve = MakeReservation_ctor
    /\ Trans_Info = TransactionInfo_default
    /\ Users = <<>>
    /\ logged_user = 0
    /\ pc = "first"
    /\ last = [op |-> "init"]
    /\ x = nullptr /\ c = nullptr /\ item = nullptr
    /\ added = [hd \in {"x", "c"} |-> <<>>]
    /\ ops = 0
    /\ NoQuery /\ NoOutput

\* first menu, "1": UserManager::signUpUser
SignUp(in) ==
    /\ Step
    /\ pc = "first"
    /\ Len(Users) < MaxUsers
    /\ Users' = signUpUser(Users, in.username, in.password, in.email)
    /\ last' = [op |-> "signUp"]
    /\ UNCHANGED <<heap, pc, logged_user, it, reserve, Trans_Info>>

\* first menu, "2": UserManager::signInUser, then the loop of the second
\* menu is entered if somebody is logged in
SignIn(name, password) ==
    /\ Step
    /\ pc = "first"
    /\ logged_user' = signInLoop(Users, 1, name, <<password, password>>, logged_user)
    /\ pc' = IF logged_user' # 0 THEN "second" ELSE "first"
    /\ last' = [op |-> "signIn"]
    /\ UNCHANGED <<heap, Users, it, reserve, Trans_Info>>

\* first menu, "3"
Exit ==
    /\ Step
    /\ pc = "first"
    /\ pc' = "exit"
    /\ last' = [op |-> "exit"]
    /\ UNCHANGED <<heap, Users, logged_user, it, reserve, Trans_Info>>

\* second menu, "2": Manager::addItinerary starts its loop
MakeItinerary ==
    /\ Step
    /\ pc = "second"
    /\ pc' = "third"
    /\ last' = [op |-> "makeItinerary"]
    /\ UNCHANGED <<heap, Users, logged_user, it, reserve, Trans_Info>>

\* faulty variant: the user is logged out and the working itinerary is kept
Logout_keeping ==
    /\ Step
    /\ pc = "second"
    /\ logged_user' = 0
    /\ pc' = "first"
    /\ last' = [op |-> "logout", dropped |-> Len(heap[it].Reservations)]
    /\ UNCHANGED <<heap, Users, it, reserve, Trans_Info>>

\* second menu, "4": logoutUser, then clearItinerary; dropped is the number
\* of reservations the working itinerary held
Logout ==
    /\ Step
    /\ pc = "second"
    /\ logged_user' = 0
    /\ heap' = Itinerary_clear(heap, it)
    /\ pc' = "first"
    /\ last' = [op |-> "logout", dropped |-> Len(heap[it].Reservations)]
    /\ UNCHANGED <<Users, it, reserve, Trans_Info>>

\* third menu, "1": ItineraryBuilder::addFlight
AddFlight(info, choice) ==
    /\ Step
    /\ pc = "third"
    /\ Len(heap[it].Reservations) < MaxLen
    /\ Cardinality(FreeIds(heap)) >= 2
    /\ LET outside == ~((choice = -1) \/ (choice > Len(MergedFlights)))
                          /\ (choice - 1) \notin 0..(Len(MergedFlights) - 1)
       IN  \/ \E read \in (IF outside THEN StrayFlights ELSE {FoundFlightInfo_default}) :
                LET rf == reservingFlight(reserve, info, choice, read)
                IN  /\ reserve' = rf.reserve
                    /\ heap' = ItineraryBuilder_add(heap, it, rf.result)
                    /\ last' = [op |-> "addFlight", choice |-> choice, n |-> rf.n,
                                oob |-> rf.oob, result |-> rf.result,
                                criteria |-> rf.reserve.passenger_info[1],
                                chosen |-> rf.reserve.chosen_flight[1]]
                    /\ pc' = "third"
           \/ /\ outside        \* the stray access faults: the program dies
              /\ reserve' = reservingFlight(reserve, info, -1, FoundFlightInfo_default).reserve
              /\ last' = [op |-> "addFlight", choice |-> choice, n |-> Len(MergedFlights),
                          oob |-> TRUE, result |-> <<>>,
                          criteria |-> reserve'.passenger_info[1],
                          chosen |-> reserve'.chosen_flight[1]]
              /\ pc' = "crashed"
              /\ heap' = heap
    /\ UNCHANGED <<Users, logged_user, it, Trans_Info>>

\* third menu, "2": ItineraryBuilder::addHotel
AddHotel(info, choice) ==
    /\ Step
    /\ pc = "third"
    /\ Len(heap[it].Reservations) < MaxLen
    /\ Cardinality(FreeIds(heap)) >= 2
    /\ LET outside == ~((choice = -1) \/ (choice > Len(MergedRooms)))
                          /\ (choice - 1) \notin 0..(Len(MergedRooms) - 1)
       IN  \/ \E read \in (IF outside THEN StrayRooms ELSE {FoundRoomInfo_default}) :
                LET rr == reservingRoom(reserve, info, choice, read)
                IN  /\ reserve' = rr.reserve
                    /\ heap' = ItineraryBuilder_add(heap, it, rr.result)
                    /\ last' = [op |-> "addHotel", choice |-> choice, n |-> rr.n,
                                oob |-> rr.oob, result |-> rr.result,
                                criteria |-> rr.reserve.customer_info[1],
                                chosen |-> rr.reserve.chosen_room[1]]
                    /\ pc' = "third"
           \/ /\ outside        \* the stray access faults: the program dies
              /\ reserve' = reservingRoom(reserve, info, -1, FoundRoomInfo_default).reserve
              /\ last' = [op |-> "addHotel", choice |-> choice, n |-> Len(MergedRooms),
                          oob |-> TRUE, result |-> <<>>,
                          criteria |-> reserve'.customer_info[1],
                          chosen |-> reserve'.chosen_room[1]]
              /\ pc' = "crashed"
              /\ heap' = heap
    /\ UNCHANGED <<Users, logged_user, it, Trans_Info>>

\* third menu, "3": Manager::save, then addItinerary returns
Save(methodInput, rest) ==
    /\ Step
    /\ pc = "third"
    /\ 2 * Size(heap, it) <= Cardinality(FreeIds(heap))
    /\ LET r == Manager_save(heap, Users, logged_user, it, Trans_Info, methodInput, rest)
       IN  /\ heap' = r.heap
           /\ Users' = r.users
           /\ Trans_Info' = r.info
           /\ pc' = IF r.outcome = "throw" THEN "crashed" ELSE "second"
           /\ last' = [op |-> "save", outcome |-> r.outcome, cost |-> r.cost,
                       set |-> r.set, pay |-> r.pay, handed |-> r.handed,
                       method |-> methodInput]
    /\ UNCHANGED <<logged_user, it, reserve>>

\* third menu, "4": clearItinerary, then addItinerary returns
Cancel ==
    /\ Step
    /\ pc = "third"
    /\ heap' = Itinerary_clear(heap, it)
    /\ pc' = "second"
    /\ last' = [op |-> "cancel"]
    /\ UNCHANGED <<Users, logged_user, it, reserve, Trans_Info>>

NextManager ==
    \/ \E in \in SignUpInputs : SignUp(in)
    \/ \E name \in SignInNames, password \in SignInPasswords : SignIn(name, password)
    \/ Exit
    \/ MakeItinerary
    \/ Logout
    \/ \E info \in FlightCriteria, choice \in FlightChoices : AddFlight(info, choice)
    \/ \E info \in RoomCriteria, choice \in RoomChoices : AddHotel(info, choice)
    \/ \E methodInput \in MethodInputs, rest \in RestInputs : Save(methodInput, rest)
    \/ Cancel

SpecManager == InitManager /\ [][NextManager]_vars

\* ------------------------------------------------------------ properties
RECURSIVE SumSeq(_)
SumSeq(q) == IF q = <<>> THEN 0 ELSE Head(q) + SumSeq(Tail(q))

ItineraryHandles == {hd \in {"x", "c"} : Ptr(hd) # nullptr /\ heap[Ptr(hd)].kind = "Itinerary"}

PtrNext(hd) == CASE hd = "x" -> x' [] hd = "c" -> c' [] hd = "item" -> item'

\* C1: after any sequence of addReservation and clear calls, an itinerary's
\* getCost() is the sum of the costs of exactly the reservations added since
\* its construction or last clear, element by element; 600 + 1800 gives 2400.
C1_CostIsSumOfAdded ==
    \A hd \in ItineraryHandles :
        /\ ValidPtr(heap, Ptr(hd))
        /\ Len(heap[Ptr(hd)].Reservations) = Len(added[hd])
        /\ \A k \in 1..Len(added[hd]) :
               getCost(heap, heap[Ptr(hd)].Reservations[k]) = added[hd][k]
        /\ Itinerary_getCost(heap, Ptr(hd)) = SumSeq(added[hd])
        /\ (added[hd] = <<600, 1800>> => Itinerary_getCost(heap, Ptr(hd)) = 2400)

C1_Witness ==
    /\ added["x"] = <<600, 1800>>
    /\ Itinerary_getCost(heap, x) = 2400
    /\ heap[heap[x].Reservations[1]].kind = "Canada"
    /\ heap[heap[x].Reservations[2]].kind = "Hilton"

\* C8: addReservation(item) appends a clone of item and leaves item as it
\* was: the target has one more element, a different object that reads the
\* same as item and costs the same, the earlier elements read as before in
\* the same order; destroying or reassigning item afterwards changes neither
\* the contents nor the cost of any itinerary.
C8_AddAppendsClone ==
    [][ /\ last'.op = "addReservation" =>
              LET t == Ptr(last'.target)
                  s == Ptr(last'.src)
                  new == heap'[t].Reservations[Len(heap'[t].Reservations)]
              IN  /\ Len(heap'[t].Reservations) = Len(heap[t].Reservations) + 1
                  /\ ViewOf(heap', t).elems = Append(ViewOf(heap, t).elems, ViewOf(heap, s))
                  /\ new \notin OwnedBy(heap, s)
                  /\ s # t => new \notin OwnedBy(heap', s)
                  /\ ValidPtr(heap', new)
                  /\ getCost(heap', new) = getCost(heap, s)
                  /\ s # t => ViewOf(heap', s) = ViewOf(heap, s)
        /\ (last'.op \in {"reset", "makeItem"} /\ last'.target = "item") =>
              /\ ViewOf(heap', x') = ViewOf(heap, x)
              /\ ViewOf(heap', c') = ViewOf(heap, c)
              /\ \A hd \in {"x", "c"} :
                     (Ptr(hd) # nullptr /\ ValidPtr(heap, Ptr(hd))) =>
                         /\ ValidPtr(heap', PtrNext(hd))
                         /\ getCost(heap', PtrNext(hd)) = getCost(heap, Ptr(hd))
      ]_vars

\* an item was added to x and item was destroyed afterwards: x still holds it
C8_Witness ==
    /\ last.op = "reset" /\ last.target = "item"
    /\ item = nullptr
    /\ added["x"] = <<600>>
    /\ Itinerary_getCost(heap, x) = 600

\* C9: x.clone() reads the same as x for every adapter and every itinerary,
\* nested ones included: same cost, same number of elements, same
\* per-element costs in the same order.
C9_CloneSameState ==
    [][ last'.op = "clone" =>
            LET s == Ptr(last'.src)
            IN  /\ ValidPtr(heap', c')
                /\ ViewOf(heap', c') = ViewOf(heap, s)
                /\ getCost(heap', c') = getCost(heap, s)
                /\ Len(heap'[c'].Reservations) = Len(heap[s].Reservations)
                /\ \A k \in 1..Len(heap[s].Reservations) :
                       getCost(heap', heap'[c'].Reservations[k])
                           = getCost(heap, heap[s].Reservations[k])
      ]_vars

\* c is the clone of an itinerary that holds a non-empty itinerary and a hotel
C9_Witness ==
    /\ last.op = "clone" /\ last.src = "x"
    /\ Len(heap[c].Reservations) = 2
    /\ heap[heap[c].Reservations[1]].kind = "Itinerary"
    /\ Len(heap[heap[c].Reservations[1]].Reservations) = 1
    /\ heap[heap[c].Reservations[2]].kind = "Marriott"
    /\ getCost(heap, c) = getCost(heap, x)
    /\ getCost(heap, c) > 0

\* C10: a clone shares nothing with its original: no object is reachable
\* from both, an operation on the clone (addReservation, clear, destruction,
\* reassignment) leaves the original reading and costing the same, and an
\* operation on the original leaves the clone reading and costing the same.
C10_CloneIndependent ==
    [][ /\ OwnedBy(heap', x') \cap OwnedBy(heap', c') = {}
        /\ OwnedBy(heap', item') \cap OwnedBy(heap', c') = {}
        /\ (last'.target = "c" /\ last'.op \in {"addReservation", "clear", "reset", "clone"}) =>
              /\ ViewOf(heap', x') = ViewOf(heap, x)
              /\ ViewOf(heap', item') = ViewOf(heap, item)
              /\ ValidPtr(heap', x')
              /\ getCost(heap', x') = getCost(heap, x)
        /\ (last'.target = "x" /\ last'.op \in {"addReservation", "clear"}) =>
              /\ ViewOf(heap', c') = ViewOf(heap, c)
              /\ (c # nullptr => ValidPtr(heap', c') /\ getCost(heap', c') = getCost(heap, c))
      ]_vars

\* the clone of a non-empty x was cleared while x kept its reservation
C10_Witness ==
    /\ last.op = "clear" /\ last.target = "c"
    /\ c # nullptr /\ heap[c].kind = "Itinerary" /\ heap[c].Reservations = <<>>
    /\ added["x"] = <<1800>>
    /\ Itinerary_getCost(heap, x) = 1800

\* C5: a flight adapter (Canada, Turkish) constructed from a PassengerInfo
\* with adults a, children c, infants i (each >= 0) and a chosen flight of
\* price p has getCost() = p * (a + c + i).
C5_FlightCost ==
    last.op = "buildFlight" =>
        /\ ValidPtr(heap, item)
        /\ heap[item].kind = last.brand
        /\ getCost(heap, item)
               = last.chosen.price * (last.info.adults + last.info.children + last.info.infants)

\* a Turkish flight at 250 for 1 adult, 1 child and 2 infants costs 1000
C5_Witness ==
    /\ last.op = "buildFlight" /\ last.brand = "Turkish"
    /\ last.info = [adults |-> 1, children |-> 1, infants |-> 2]
    /\ last.chosen.price = 250
    /\ getCost(heap, item) = 1000

\* C6: a hotel adapter (Hilton, Marriott) constructed from a CustomerInfo with
\* number_of_nights n and needed_rooms r and a chosen room of price_for_night
\* p has getCost() = p * n * r; p = 300, n = 3, r = 2 gives 1800.
C6_HotelCost ==
    last.op = "buildHotel" =>
        /\ ValidPtr(heap, item)
        /\ heap[item].kind = last.brand
        /\ getCost(heap, item)
               = last.chosen.price_for_night * last.info.number_of_nights
                     * last.info.needed_rooms
        /\ (last.chosen.price_for_night = 300 /\ last.info.number_of_nights = 3
                /\ last.info.needed_rooms = 2) => getCost(heap, item) = 1800

C6_Witness ==
    /\ last.op = "buildHotel" /\ last.brand = "Hilton"
    /\ last.chosen.price_for_night = 300
    /\ last.info.number_of_nights = 3 /\ last.info.needed_rooms = 2
    /\ getCost(heap, item) = 1800

\* ---- the menu program
LastIsAdd == last.op \in {"addFlight", "addHotel"}
\* the cost the reservation just returned by the workflow answers
ResultCost == getCost([EmptyHeap EXCEPT ![1] = last.result[1]], 1)
\* the brand tag and the price of the entry the workflow stored as chosen
ChosenBrand == IF last.op = "addFlight" THEN last.chosen.airline ELSE last.chosen.hotel
ChosenPrice == IF last.op = "addFlight" THEN last.chosen.price ELSE last.chosen.price_for_night
ResultPrice ==
    CASE last.result[1].kind = "Canada" -> last.result[1].chosen[1].price
      [] last.result[1].kind = "Turkish" -> last.result[1].chosen[1].cost
      [] OTHER -> last.result[1].chosen[1].price_per_night

\* C2: a choice outside 1..n (the sentinel -1, 0, any other negative number,
\* any value above n) makes reservingFlight / reservingRoom return no
\* reservation, and the merged list is never read outside 0..n-1.
C2_OutOfRangeAborts ==
    (LastIsAdd /\ last.choice \notin 1..last.n)
        => (last.result = <<>> /\ ~last.oob)

\* C3: when Manager::save pays, the amount handed to makePayment is the
\* working itinerary's getCost() at that time.
C3_PaidAmountIsCost ==
    (last.op = "save" /\ last.handed # <<>>) => last.handed[1] = last.cost

\* C4: a valid 1-based choice k returns the adapter named by the k-th entry's
\* brand tag, holding the entered head counts and the k-th entry's price (a
\* flight then costs price * (adults + children + infants)); a stored entry
\* whose tag is none of the four brands gives no reservation.
C4_FactoryDispatch ==
    LastIsAdd =>
        /\ last.choice \in 1..last.n =>
              LET entry == IF last.op = "addFlight" THEN MergedFlights[last.choice]
                           ELSE MergedRooms[last.choice]
              IN  /\ last.chosen = entry
                  /\ last.result # <<>>
                  /\ last.result[1].kind = ChosenBrand
                  /\ ResultPrice = ChosenPrice
                  /\ last.result[1].customer_info[1].adults = last.criteria.adults
                  /\ last.result[1].customer_info[1].children = last.criteria.children
                  /\ last.op = "addFlight" =>
                        /\ last.result[1].customer_info[1].infants = last.criteria.infants
                        /\ ResultCost = entry.price * (last.criteria.adults
                                          + last.criteria.children + last.criteria.infants)
                  /\ last.op = "addHotel" =>
                        last.result[1].customer_info[1].number_of_nights
                            = last.criteria.number_of_nights
        /\ ChosenBrand \notin Brands => last.result = <<>>
C4_Witness ==
    /\ last.op = "addFlight" /\ last.choice = 1
    /\ MergedFlights[1].airline = "Canada" /\ MergedFlights[1].price = 200
    /\ last.criteria.adults = 2 /\ last.criteria.children = 1
    /\ last.result # <<>> /\ last.result[1].kind = "Canada"
    /\ ResultCost = 600
    /\ Len(heap[it].Reservations) = 1
    /\ getCost(heap, heap[it].Reservations[1]) = 600

\* C7: the CustomerInfo reservingRoom hands to a hotel adapter has
\* needed_rooms >= 1, so with a positive price and a positive number of
\* nights the reservation it returns has a positive cost.
C7_RoomsAtLeastOne ==
    (last.op = "addHotel" /\ last.result # <<>>)
        => /\ last.criteria.needed_rooms >= 1
           /\ (ChosenPrice > 0 /\ last.criteria.number_of_nights > 0) => ResultCost > 0

\* every itinerary stored in some user's list
StoredItineraries == {<<u, k>> \in (1..MaxUsers) \X (1..MaxObj) :
                         u <= Len(Users) /\ k <= Len(Users[u].Itineraries)}

\* C11: after a successful save the itinerary stored in the logged-in user's
\* list has as many reservations and the same getCost() as the working
\* itinerary had when save was called; the clearItinerary that follows and
\* every later step of the program (additions to and clearings of the working
\* itinerary included) leave every stored itinerary as it was.
C11_StoredCopyIsStable ==
    [][ /\ (last'.op = "save" /\ last'.outcome = "paid") =>
              LET u == logged_user
                  stored == Users'[u].Itineraries[Len(Users'[u].Itineraries)]
              IN  /\ Len(Users'[u].Itineraries) = Len(Users[u].Itineraries) + 1
                  /\ ValidPtr(heap', stored)
                  /\ Len(heap'[stored].Reservations) = Len(heap[it].Reservations)
                  /\ getCost(heap', stored) = getCost(heap, it)
                  /\ ViewOf(heap', stored) = ViewOf(heap, it)
                  /\ OwnedBy(heap', stored) \cap OwnedBy(heap', it') = {}
        /\ \A uk \in StoredItineraries :
              LET old == Users[uk[1]].Itineraries[uk[2]]
                  new == Users'[uk[1]].Itineraries[uk[2]]
              IN  /\ ValidPtr(heap, old) /\ ValidPtr(heap', new)
                  /\ ViewOf(heap', new) = ViewOf(heap, old)
                  /\ getCost(heap', new) = getCost(heap, old)
      ]_vars

\* a flight was saved for 600 and the working itinerary holds a new one since
C11_Witness ==
    /\ last.op = "addFlight" /\ last.result # <<>>
    /\ logged_user # 0
    /\ Len(Users[logged_user].Itineraries) = 1
    /\ Len(heap[Users[logged_user].Itineraries[1]].Reservations) = 1
    /\ getCost(heap, Users[logged_user].Itineraries[1]) = 600
    /\ Len(heap[it].Reservations) = 1

\* C12: a user's itinerary list changes only in a Manager::save in which the
\* working itinerary was not empty, setTransactionInfo returned true and
\* makeThePayment returned true; an empty itinerary, a cancelled or failed
\* payment, the menu's Cancel, logout and every other step change no list,
\* and a new user starts with an empty one.
C12_AttachedOnlyWhenPaid ==
    [][ LET changed == \E u \in 1..Len(Users) :
                           Users'[u].Itineraries # Users[u].Itineraries
        IN  /\ Len(Users') >= Len(Users)
            /\ changed => /\ last'.op = "save"
                          /\ ~Itinerary_isEmpty(heap, it)
                          /\ last'.set = "true"
                          /\ last'.pay = "true"
            /\ (last'.op = "save" /\ last'.outcome # "paid") => ~changed
            /\ Len(Users') > Len(Users) => Users'[Len(Users')].Itineraries = <<>>
      ]_vars

\* the payment went through and the user's list holds its first itinerary
C12_Witness ==
    /\ last.op = "save" /\ last.outcome = "paid"
    /\ last.set = "true" /\ last.pay = "true"
    /\ logged_user # 0
    /\ Len(Users[logged_user].Itineraries) = 1

\* ---- Itinerary copied, moved and printed
\* C13: after copy construction from S, and after copy assignment of S to an
\* existing itinerary T (empty or not), the target's sequence is element for
\* element a clone of S's: same length, same per-element costs in the same
\* order, same getCost().
C13_CopyIsElementwiseClone ==
    [][ last'.op \in {"copyCtor", "copyAssign"} =>
            LET t == PtrNext(last'.target)
                s == Ptr(last'.src)
            IN  /\ Len(heap'[t].Reservations) = Len(heap[s].Reservations)
                /\ ElementCosts(heap', t) = ElementCosts(heap, s)
                /\ getCost(heap', t) = getCost(heap, s)
                /\ ViewOf(heap', t) = ViewOf(heap, s)
      ]_vars

\* C15: a freshly constructed itinerary and an itinerary right after clear()
\* answer isEmpty() = true and getCost() = 0, whatever was added before;
\* isEmpty() is false whenever at least one reservation is held.
C15_EmptyLaw ==
    \A hd \in ItineraryHandles :
        /\ Itinerary_isEmpty(heap, Ptr(hd)) <=> (Len(heap[Ptr(hd)].Reservations) = 0)
        /\ (last.op = "init" \/ (last.op = "clear" /\ last.target = hd)) =>
              /\ Itinerary_isEmpty(heap, Ptr(hd))
              /\ Itinerary_getCost(heap, Ptr(hd)) = 0

\* x was cleared after c took a copy of its two reservations
C15_Witness ==
    /\ last.op = "clear" /\ last.target = "x"
    /\ Itinerary_isEmpty(heap, x) /\ Itinerary_getCost(heap, x) = 0
    /\ c # nullptr /\ heap[c].kind = "Itinerary"
    /\ Len(heap[c].Reservations) = 2 /\ ~Itinerary_isEmpty(heap, c)

\* C19: move construction from S, and move assignment of S to another
\* itinerary T, give the target S's very elements (the same objects in the
\* same order, none cloned, same getCost()), leave S empty, and in the
\* assignment delete the elements T held before.
C19_MoveTransfersSequence ==
    [][ (last'.op \in {"moveCtor", "moveAssign"} /\ last'.target # last'.src) =>
            LET t == PtrNext(last'.target)
                s == Ptr(last'.src)
            IN  /\ heap'[t].Reservations = heap[s].Reservations
                /\ \A k \in 1..Len(heap[s].Reservations) :
                       /\ heap'[heap[s].Reservations[k]] = heap[heap[s].Reservations[k]]
                       /\ ValidPtr(heap', heap[s].Reservations[k])
                /\ ViewOf(heap', t) = ViewOf(heap, s)
                /\ getCost(heap', t) = getCost(heap, s)
                /\ heap'[s].Reservations = <<>>
                /\ Itinerary_getCost(heap', s) = 0
                /\ last'.op = "moveAssign" =>
                      \A k \in 1..Len(heap[t].Reservations) :
                          ~IsLive(heap', heap[t].Reservations[k])
      ]_vars

\* x's two reservations were move-assigned to c, which held one before
C19_Witness ==
    /\ last.op = "moveAssign" /\ last.target = "c" /\ last.src = "x"
    /\ last.dropped = 1
    /\ Len(heap[c].Reservations) = 2
    /\ added["c"] = <<600, 1800>> /\ Itinerary_getCost(heap, c) = 2400
    /\ heap[x].Reservations = <<>>

\* C20: Itinerary::getDetails(sink) writes the count, each child's details in
\* order, the total cost and the separator line to sink, writes nothing to
\* any other stream and changes no itinerary.
C20_DetailsGoToSinkOnly ==
    [][ (last'.op = "getDetails" /\ heap[Ptr(last'.src)].kind = "Itinerary") =>
            LET s == Ptr(last'.src)
                n == Len(heap[s].Reservations)
            IN  /\ heap' = heap
                /\ Len(get') >= n + 3
                /\ get'[1] = <<"Itinerary of", n>>
                /\ get'[Len(get') - 1] = <<"Itinerary Cost", Itinerary_getCost(heap, s)>>
                /\ get'[Len(get')] = <<"----------------------------------">>
                /\ cout' = cout
      ]_vars

\* ---- the merged offer lists
\* the prices of a vendor's offers, in the order its interface returns them
VendorPrices(brand) ==
    CASE brand = "Canada" -> [i \in 1..Len(AirCanadaOnlineAPI_getFlights) |->
                                 AirCanadaOnlineAPI_getFlights[i].price]
      [] brand = "Turkish" -> [i \in 1..Len(TurkishAirlineOnlineAPI_getAvailableFlights) |->
                                  TurkishAirlineOnlineAPI_getAvailableFlights[i].cost]
      [] brand = "Hilton" -> [i \in 1..Len(HiltonHotelAPI_searchRooms) |->
                                 HiltonHotelAPI_searchRooms[i].price_per_night]
      [] brand = "Marriott" -> [i \in 1..Len(MarriottHotelAPI_findRooms) |->
                                   MarriottHotelAPI_findRooms[i].price_per_night]

\* after is before followed by brand's offers, tagged and priced
AppendedFlights(before, after, brand) ==
    /\ Len(after) = Len(before) + Len(VendorPrices(brand))
    /\ SubSeq(after, 1, Len(before)) = before
    /\ \A j \in 1..Len(VendorPrices(brand)) :
           /\ after[Len(before) + j].airline = brand
           /\ after[Len(before) + j].price = VendorPrices(brand)[j]
AppendedRooms(before, after, brand) ==
    /\ Len(after) = Len(before) + Len(VendorPrices(brand))
    /\ SubSeq(after, 1, Len(before)) = before
    /\ \A j \in 1..Len(VendorPrices(brand)) :
           /\ after[Len(before) + j].hotel = brand
           /\ after[Len(before) + j].price_for_night = VendorPrices(brand)[j]

\* C14: each adapter asked appends its m offers after whatever the shared
\* vector already held, replacing and reordering nothing; once every adapter
\* of a kind has been asked in registration order starting from an empty
\* vector, the vector has the sum of the m's entries, Canada's before
\* Turkish's and Hilton's before Marriott's, each tagged with its brand and
\* carrying the vendor's price.
C14_MergeAppends ==
    [][ /\ asked'.airports # asked.airports =>
              AppendedFlights(out_flights, out_flights', Airports[asked'.airports])
        /\ asked'.hotels # asked.hotels =>
              AppendedRooms(out_rooms, out_rooms', Hotels[asked'.hotels])
        /\ (asked'.airports = Len(Airports) /\ last'.start_flights = <<>>) =>
              /\ Len(out_flights') = Len(VendorPrices("Canada")) + Len(VendorPrices("Turkish"))
              /\ [k \in 1..Len(out_flights') |-> out_flights'[k].airline]
                     = [k \in 1..Len(VendorPrices("Canada")) |-> "Canada"]
                           \o [k \in 1..Len(VendorPrices("Turkish")) |-> "Turkish"]
              /\ [k \in 1..Len(out_flights') |-> out_flights'[k].price]
                     = VendorPrices("Canada") \o VendorPrices("Turkish")
              /\ out_flights' = MergedFlights
        /\ (asked'.hotels = Len(Hotels) /\ last'.start_rooms = <<>>) =>
              /\ Len(out_rooms') = Len(VendorPrices("Hilton")) + Len(VendorPrices("Marriott"))
              /\ [k \in 1..Len(out_rooms') |-> out_rooms'[k].hotel]
                     = [k \in 1..Len(VendorPrices("Hilton")) |-> "Hilton"]
                           \o [k \in 1..Len(VendorPrices("Marriott")) |-> "Marriott"]
              /\ [k \in 1..Len(out_rooms') |-> out_rooms'[k].price_for_night]
                     = VendorPrices("Hilton") \o VendorPrices("Marriott")
              /\ out_rooms' = MergedRooms
      ]_vars

\* both airlines were asked with a vector that already held two entries
C14_Witness ==
    /\ asked.airports = 2
    /\ Len(last.start_flights) = 2
    /\ Len(out_flights) = 6
    /\ SubSeq(out_flights, 1, 2) = last.start_flights
    /\ out_flights[3].airline = "Canada" /\ out_flights[5].airline = "Turkish"
    /\ asked.hotels = 2 /\ last.start_rooms = <<>> /\ Len(out_rooms) = 6

\* C16: getCost() is never negative: not for a reservation the workflow
\* returns from the integers typed in, not for the working itinerary, not for
\* an itinerary stored with a user.
C16_CostNonNegative ==
    /\ (LastIsAdd /\ last.result # <<>>) => ResultCost >= 0
    /\ it # nullptr => Itinerary_getCost(heap, it) >= 0
    /\ \A uk \in StoredItineraries :
           getCost(heap, Users[uk[1]].Itineraries[uk[2]]) >= 0

\* ---- adapters moved
\* C17: move construction from X and move assignment of X to an existing
\* adapter of its class hand X's criteria record and chosen-result record to
\* the target, whose getCost() is then what X's was.
C17_MoveTransfersRecords ==
    [][ (last'.op \in {"adapterMoveCtor", "adapterMoveAssign"} /\ ValidPtr(heap, item)) =>
            /\ heap'[c'].customer_info = heap[item].customer_info
            /\ heap'[c'].chosen = heap[item].chosen
            /\ getCost(heap', c') = getCost(heap, item)
      ]_vars

\* C18: every adapter object alive, the source of a move included, holds a
\* criteria record and a chosen-result record, so nothing that reads them
\* dereferences a null pointer.
C18_RecordsNeverNull ==
    \A id \in ObjIds :
        (IsLive(heap, id) /\ heap[id].kind # "Itinerary") =>
            (heap[id].customer_info # <<>> /\ heap[id].chosen # <<>>)

\* ---- the builder's records and the working itinerary
\* C21: once ReservationFactory has returned an adapter, MakeReservation holds
\* neither the criteria record nor the chosen-result record it built it from.
C21_RecordsConsumed ==
    (LastIsAdd /\ last.result # <<>>) =>
        IF last.op = "addFlight"
        THEN reserve.passenger_info = <<>> /\ reserve.chosen_flight = <<>>
        ELSE reserve.customer_info = <<>> /\ reserve.chosen_room = <<>>

\* C22: when reservingFlight or reservingRoom returns no reservation, addFlight
\* / addHotel leaves every object of the heap (the working itinerary and its
\* elements among them) as it was, and no user's itinerary list changes.
C22_NoReservationNoChange ==
    [][ (last'.op \in {"addFlight", "addHotel"} /\ last'.result = <<>>) =>
            (heap' = heap /\ Users' = Users /\ it' = it) ]_vars

\* an aborted workflow met a working itinerary that already held a reservation
C22_Witness ==
    /\ LastIsAdd /\ last.result = <<>> /\ last.choice = -1
    /\ pc = "third"
    /\ ~Itinerary_isEmpty(heap, it)

\* C23: the registered adapters stay what the constructor of MakeReservation
\* registered - Canada then Turkish, Hilton then Marriott, each with its
\* default records - whatever bookings were completed or aborted.
C23_RegisteredAdaptersFixed ==
    /\ reserve.Airports = <<Canada_ctor, Turkish_ctor>>
    /\ reserve.Hotels = <<Hilton_ctor, Marriott_ctor>>

\* a booking was completed after an earlier one, so the adapters were asked twice
C23_Witness ==
    /\ LastIsAdd /\ last.result # <<>>
    /\ Len(heap[it].Reservations) = 2
    /\ last.result[1] \notin {Canada_ctor, Turkish_ctor, Hilton_ctor, Marriott_ctor}

\* C24: every return from the menu of Manager::addItinerary, by Save or by
\* Cancel, leaves the working itinerary empty.
C24_MenuReturnsEmpty ==
    (last.op \in {"save", "cancel"} /\ pc = "second") => Itinerary_isEmpty(heap, it)

\* C25: while nobody is logged in the working itinerary is empty.
C25_EmptyWhenLoggedOut ==
    logged_user = 0 => Itinerary_isEmpty(heap, it)

\* a user logged out while the working itinerary held unsaved reservations
C25_Witness ==
    /\ last.op = "logout" /\ last.dropped > 0
    /\ logged_user = 0

\* C26: a save whose payment-method answer is none of 1, 2, 3, e, E does not
\* end in a successful payment, and attaches nothing to any user.
C26_UnknownMethodNeverPays ==
    [][ (last'.op = "save" /\ pc = "third"
         /\ last'.method \notin {"1", "2", "3", "e", "E"}) =>
            (last'.outcome # "paid" /\ Users' = Users) ]_vars

\* C30: every object allocated has an owner: it is the working itinerary,
\* one of a user's stored itineraries, or an element of one of them.
C30_NoOrphan ==
    \A id \in ObjIds :
        IsLive(heap, id) =>
            \/ id \in OwnedBy(heap, it)
            \/ \E u \in 1..Len(Users) : \E k \in 1..Len(Users[u].Itineraries) :
                   id \in OwnedBy(heap, Users[u].Itineraries[k])

\* ---- the UserManager
\* C27: the logged-in user is none or a registered user; it goes from none to
\* user U only in a signInUser whose entered username is U's and whose entered
\* password is U's; an unknown username or a wrong password leaves it none.
C27_LoginNeedsCredentials ==
    [][ /\ logged_user' \in 0..Len(Users')
        /\ (logged_user = 0 /\ logged_user' # 0) =>
               /\ last'.op = "signInUser"
               /\ Users[logged_user'].username = last'.input[1]
               /\ Users[logged_user'].password = last'.input[2]
        /\ (last'.op = "signInUser"
            /\ ~\E u \in 1..Len(Users) : /\ Users[u].username = last'.input[1]
                                         /\ Users[u].password = last'.input[2]) =>
               logged_user' = 0
      ]_vars

NoDuplicates(users) ==
    \A i, j \in 1..Len(users) :
        i # j => (users[i].username # users[j].username /\ users[i].email # users[j].email)

\* C28: signUpUser keeps usernames and emails pairwise different, and a
\* sign-up whose username or email is already registered changes no user.
C28_SignUpKeepsUnique ==
    [][ last'.op = "signUpUser" =>
            /\ NoDuplicates(Users')
            /\ (checkUsernameExistence(Users, last'.username)
                \/ checkUserEmailExistence(Users, last'.email)) => Users' = Users
            /\ ~(checkUsernameExistence(Users, last'.username)
                 \/ checkUserEmailExistence(Users, last'.email)) =>
                   Users' = Append(Users, [username |-> last'.username,
                                           password |-> last'.pass,
                                           email |-> last'.email, Itineraries |-> <<>>])
      ]_vars

\* a sign-up with a new username and a registered email was turned down
C28_Witness ==
    /\ last.op = "signUpUser"
    /\ checkUserEmailExistence(Users, last.email)
    /\ ~checkUsernameExistence(Users, last.username)

\* C29: addItineraryToUser appends one itinerary to the logged-in user's list
\* and changes no other user; with nobody logged in it changes nothing.
C29_AddTouchesLoggedUserOnly ==
    [][ last'.op = "addItineraryToUser" =>
            IF logged_user = 0 THEN Users' = Users /\ heap' = heap
            ELSE /\ Len(Users') = Len(Users)
                 /\ \A u \in 1..Len(Users) :
                        IF u = logged_user
                        THEN /\ Len(Users'[u].Itineraries) = Len(Users[u].Itineraries) + 1
                             /\ SubSeq(Users'[u].Itineraries, 1, Len(Users[u].Itineraries))
                                    = Users[u].Itineraries
                             /\ [Users'[u] EXCEPT !.Itineraries = <<>>]
                                    = [Users[u] EXCEPT !.Itineraries = <<>>]
                        ELSE Users'[u] = Users[u]
      ]_vars

\* the second of two registered users got an itinerary, the first has none
C29_Witness ==
    /\ last.op = "addItineraryToUser"
    /\ Len(Users) = 2 /\ logged_user = 2
    /\ Len(Users[2].Itineraries) = 1
    /\ Users[1].Itineraries = <<>>

====
